---- MODULE Spec2Model ----
(***************************************************************************)
(* The Ruby (dry-struct / dry-types) and Kotlin renderers of quicktype:    *)
(* the type-directed synthesis functions of src/Language/Ruby.ts and the   *)
(* emission of one type graph by RubyRenderer.emitSourceStructure.         *)
(***************************************************************************)
EXTENDS Integers, Sequences, FiniteSets, TLC

VARIABLES
    graph,      \* the immutable TypeGraph handed to the renderer
    target,     \* the target language whose renderer runs: "ruby" or "kotlin"
    framework,  \* the framework option of the Kotlin target: "none" or "klaxon"
    leadingComments, \* the leading comment lines handed to the renderer, or NoType
    pc,         \* position of emitSourceStructure / of the generated program
    next,       \* forEachNamedType: index of the next named type to emit
    out,        \* finished output lines
    table,      \* emitClass: rows pushed to the attribute table of the last class
    fromInits,  \* emitClass: rows of `inits` in def self.from_dynamic
    toInits,    \* emitClass: rows of `inits` in def to_dynamic
    topSource,  \* forEachTopLevel callback: the two converter expressions emitted
    d,          \* generated program: the parsed JSON handed to from_dynamic
    obj,        \* generated program: the value built by from_dynamic
    dyn,        \* generated program: the value returned by to_dynamic
    namespace,       \* name assignment: the namespace whose namer runs
    entities,   \* name assignment: the raw names of its entities in graph order
    assigned,   \* name assignment: the identifiers assigned, one per entity
    before,     \* the identifiers assigned before an entity was added to the graph
    addedAt,    \* the position in entities of the entity added to the graph, or 0
    previous,   \* the output of the render that was run before this one, or <<>>
    depth       \* the emitter's indentation depth when the last step returned

namingVars == <<namespace, entities, assigned, before, addedAt>>

\* the target selector and the options of a render
optionVars == <<target, framework, leadingComments>>

renderVars == <<graph, next, out, depth, table, fromInits, toInits, topSource, d, obj, dyn>>

vars == <<graph, target, framework, leadingComments, pc, next, out, table, fromInits, toInits, topSource, d, obj, dyn,
          namespace, entities, assigned, before, addedAt, previous, depth>>

(***************************************************************************)
(* Bounds of the model.                                                    *)
(***************************************************************************)
MaxDepth == 2
\* the number of entities of a namespace before one is added
MaxNames == 2

(***************************************************************************)
(* Strings.  A JSON string (a property key, an enum case) is a sequence of *)
(* code points; source text is a TLA+ string.                              *)
(***************************************************************************)
Ascii ==
    << " ", "!", "\"", "#", "$", "%", "&", "'", "(", ")", "*", "+", ",", "-", ".", "/",
       "0", "1", "2", "3", "4", "5", "6", "7", "8", "9", ":", ";", "<", "=", ">", "?",
       "@", "A", "B", "C", "D", "E", "F", "G", "H", "I", "J", "K", "L", "M", "N", "O",
       "P", "Q", "R", "S", "T", "U", "V", "W", "X", "Y", "Z", "[", "\\", "]", "^", "_",
       "a", "b", "c", "d", "e", "f", "g", "h", "i", "j", "k", "l", "m", "n", "o",
       "p", "q", "r", "s", "t", "u", "v", "w", "x", "y", "z", "{", "|", "}", "~" >>

HexDigits == << "0", "1", "2", "3", "4", "5", "6", "7", "8", "9", "a", "b", "c", "d", "e", "f" >>

isPrintable(codePoint) == codePoint >= 32 /\ codePoint <= 126

RECURSIVE intToHex(_)
intToHex(i) ==
    IF i < 16 THEN HexDigits[i + 1] ELSE intToHex(i \div 16) \o HexDigits[(i % 16) + 1]

unicodeEscape(codePoint) == "\\u{" \o intToHex(codePoint) \o "}"

\* String.fromCodePoint on the code points the model draws from (32..95, 97..126)
fromCodePoint(codePoint) ==
    IF codePoint < 96 THEN Ascii[codePoint - 31] ELSE Ascii[codePoint - 32]

escapeNonPrintableMapper(codePoint) ==
    IF isPrintable(codePoint) THEN fromCodePoint(codePoint) ELSE unicodeEscape(codePoint)

RECURSIVE utf32ConcatMap(_)
utf32ConcatMap(s) ==
    IF s = <<>> THEN "" ELSE escapeNonPrintableMapper(Head(s)) \o utf32ConcatMap(Tail(s))

stringEscape(s) == utf32ConcatMap(s)

(***************************************************************************)
(* Naming.  A raw name is a sequence of code points; splitIntoWords,       *)
(* combineWords, the word styles and the Namer follow the naming pipeline  *)
(* of the specification, the style functions and the forbidden words are   *)
(* those of the two renderers.                                             *)
(***************************************************************************)
keywords ==
    { "__ENCODING__", "__FILE__", "__LINE__", "alias", "and", "begin", "BEGIN", "break",
      "case", "class", "def", "defined?", "do", "else", "elsif", "end", "END", "ensure",
      "false", "for", "if", "in", "module", "next", "nil", "not", "or", "redo", "rescue",
      "retry", "return", "self", "super", "then", "true", "undef", "unless", "until",
      "when", "while", "yield" }

kotlinKeywords ==
    { "associatedtype", "class", "deinit", "enum", "extension", "fileprivate", "func",
      "import", "init", "inout", "internal", "let", "open", "operator", "private",
      "protocol", "public", "static", "struct", "subscript", "typealias", "var", "break",
      "case", "continue", "default", "defer", "do", "else", "fallthrough", "for", "guard",
      "if", "in", "repeat", "return", "switch", "where", "while", "as", "Any", "catch",
      "false", "is", "nil", "rethrows", "super", "self", "Self", "throw", "throws",
      "true", "try", "_", "associativity", "convenience", "dynamic", "didSet", "final",
      "get", "infix", "indirect", "lazy", "left", "mutating", "nonmutating", "optional",
      "override", "postfix", "precedence", "prefix", "Protocol", "required", "right",
      "set", "Type", "unowned", "weak", "willSet", "String", "Int", "Double", "Bool",
      "Data", "CommandLine", "FileHandle", "JSONSerialization", "checkNull",
      "removeNSNull", "nilToNSNull", "convertArray", "convertOptional", "convertDict",
      "convertDouble", "jsonString", "jsonData" }

isLowerCase(c) == c \in 97..122
isUpperCase(c) == c \in 65..90
isDigit(c) == c \in 48..57
isWordCharacter(c) == isLowerCase(c) \/ isUpperCase(c) \/ isDigit(c)
toLowerCase(c) == IF isUpperCase(c) THEN c + 32 ELSE c
toUpperCase(c) == IF isLowerCase(c) THEN c - 32 ELSE c

Underscore == 95

\* isStartCharacter and isPartCharacter of both renderers, on ASCII
isStartCharacter(c) == isLowerCase(c) \/ isUpperCase(c) \/ c = Underscore
isPartCharacter(c) == isDigit(c) \/ isStartCharacter(c)

\* legalizeCharacters(isPartCharacter): an illegal character becomes an underscore
legalizeName(s) == [i \in DOMAIN s |-> IF isPartCharacter(s[i]) THEN s[i] ELSE Underscore]

\* the words the acronym list of the library knows, lower-cased: km
KnownAcronyms == { << 107, 109 >> }

WordInName(w, acronym) ==
    [word |-> w, isAcronym |-> acronym \/ [i \in DOMAIN w |-> toLowerCase(w[i])] \in KnownAcronyms]

\* splitIntoWords from position i on; cur is the word read so far.  A word
\* ends at a delimiter, before an upper-case letter that follows a lower-case
\* one, and before the last letter of an upper-case run that a lower-case
\* letter follows (the run is an acronym).
RECURSIVE splitFrom(_, _, _)
splitFrom(s, i, cur) ==
    IF i > Len(s) THEN (IF cur = <<>> THEN <<>> ELSE << WordInName(cur, FALSE) >>)
    ELSE LET c == s[i]
             last == cur[Len(cur)]
             caseBoundary == cur # <<>> /\ isLowerCase(last) /\ isUpperCase(c)
             acronymBoundary ==
                 /\ cur # <<>> /\ isUpperCase(last) /\ isUpperCase(c)
                 /\ i < Len(s) /\ isLowerCase(s[i + 1])
         IN  IF ~isWordCharacter(c)
             THEN (IF cur = <<>> THEN <<>> ELSE << WordInName(cur, FALSE) >>)
                      \o splitFrom(s, i + 1, <<>>)
             ELSE IF caseBoundary THEN << WordInName(cur, FALSE) >> \o splitFrom(s, i + 1, << c >>)
             ELSE IF acronymBoundary
             THEN << WordInName(cur, Len(cur) > 1) >> \o splitFrom(s, i + 1, << c >>)
             ELSE splitFrom(s, i + 1, Append(cur, c))

splitIntoWords(s) == splitFrom(s, 1, <<>>)

firstUpperWordStyle(w) ==
    [i \in DOMAIN w |-> IF i = 1 THEN toUpperCase(w[i]) ELSE toLowerCase(w[i])]
allUpperWordStyle(w) == [i \in DOMAIN w |-> toUpperCase(w[i])]
allLowerWordStyle(w) == [i \in DOMAIN w |-> toLowerCase(w[i])]

\* a word style applied by its name
wordStyle(style, w) ==
    CASE style = "firstUpper" -> firstUpperWordStyle(w)
      [] style = "allUpper" -> allUpperWordStyle(w)
      [] style = "allLower" -> allLowerWordStyle(w)

PlaceholderWord == << 101, 109, 112, 116, 121 >>
StartWord == << 116, 104, 101 >>

RECURSIVE joinWords(_, _)
joinWords(separator, ws) ==
    IF ws = <<>> THEN <<>>
    ELSE IF Len(ws) = 1 THEN ws[1]
    ELSE ws[1] \o separator \o joinWords(separator, Tail(ws))

\* combineWords: no word gives the placeholder word; a first word that does not
\* begin with a start character is preceded by the word "the"; every word is
\* legalized and styled, the first with the first-word styles
combineWords(words, firstWordStyle, restWordStyle, firstAcronymStyle, restAcronymStyle, separator) ==
    LET legal == [i \in DOMAIN words |->
                     [word |-> legalizeName(words[i].word), isAcronym |-> words[i].isAcronym]]
        all == IF legal = <<>> THEN << WordInName(PlaceholderWord, FALSE) >>
               ELSE IF ~isStartCharacter(legal[1].word[1])
               THEN << WordInName(StartWord, FALSE) >> \o legal
               ELSE legal
        styled == [i \in DOMAIN all |->
                      wordStyle(IF i = 1
                                THEN (IF all[i].isAcronym THEN firstAcronymStyle
                                      ELSE firstWordStyle)
                                ELSE (IF all[i].isAcronym THEN restAcronymStyle
                                      ELSE restWordStyle),
                                all[i].word)]
    IN  joinWords(separator, styled)

simpleNameStyle(original, uppercase) ==
    combineWords(splitIntoWords(original),
                 IF uppercase THEN "firstUpper" ELSE "allLower",
                 IF uppercase THEN "firstUpper" ELSE "allLower",
                 "allUpper", "allUpper", <<>>)

memberNameStyle(original) ==
    combineWords(splitIntoWords(original), "allLower", "allLower", "allLower", "allLower",
                 << Underscore >>)

kotlinNameStyle(isUpper, original) ==
    combineWords(splitIntoWords(original),
                 IF isUpper THEN "firstUpper" ELSE "allLower", "firstUpper",
                 IF isUpper THEN "allUpper" ELSE "allLower", "allUpper", <<>>)

ValueSuffix == << 86, 97, 108, 117, 101 >>

Namespaces == {"types", "properties", "enum-cases", "union-members"}

\* the style function of the namer the renderer of tgt makes for namespace ns
nameStyle(tgt, ns, original) ==
    CASE tgt = "ruby" /\ ns = "types" -> simpleNameStyle(original, TRUE)
      [] tgt = "ruby" /\ ns = "properties" -> memberNameStyle(original)
      [] tgt = "ruby" /\ ns = "union-members" -> memberNameStyle(original)
      [] tgt = "ruby" /\ ns = "enum-cases" -> simpleNameStyle(original, TRUE)
      [] tgt = "kotlin" /\ ns = "types" -> kotlinNameStyle(TRUE, original)
      [] tgt = "kotlin" /\ ns = "properties" -> kotlinNameStyle(FALSE, original)
      [] tgt = "kotlin" /\ ns = "union-members" -> kotlinNameStyle(TRUE, original) \o ValueSuffix
      [] tgt = "kotlin" /\ ns = "enum-cases" -> kotlinNameStyle(TRUE, original)

forbiddenNamesForGlobalNamespace(tgt) == IF tgt = "kotlin" THEN kotlinKeywords ELSE {}

\* no namespace forbids a word
forbiddenWordsNone(tgt, ns) == {}

\* the ForbiddenWordsInfo of a namespace: names, and the global ones if included
forbiddenWords(tgt, ns) ==
    CASE ns = "types" -> forbiddenNamesForGlobalNamespace(tgt)
      [] ns = "properties" ->
             (IF tgt = "ruby" THEN keywords ELSE {}) \cup forbiddenNamesForGlobalNamespace(tgt)
      [] OTHER -> {}

\* the text of a sequence of printable code points
RECURSIVE nameText(_)
nameText(s) == IF s = <<>> THEN "" ELSE fromCodePoint(Head(s)) \o nameText(Tail(s))

\* the decimal digits of a suffix number
RECURSIVE decimal(_)
decimal(k) == IF k < 10 THEN << 48 + k >> ELSE decimal(k \div 10) \o << 48 + (k % 10) >>

\* Namer: the styled name, or the styled name with the first numeric suffix
\* _2, _3, ... that is neither forbidden nor taken, legalized
RECURSIVE disambiguate(_, _, _)
disambiguate(styled, unavailable, k) ==
    LET candidate == nameText(legalizeName(styled \o << Underscore >> \o decimal(k)))
    IN  IF candidate \notin unavailable THEN candidate
        ELSE disambiguate(styled, unavailable, k + 1)

\* the styled name, whether or not it is available
assignNameStyled(styled, unavailable) == nameText(styled)

assignName(styled, unavailable) ==
    IF nameText(styled) \notin unavailable THEN nameText(styled)
    ELSE disambiguate(styled, unavailable, 2)

\* the names assigned from the last entity of the graph order to the first
RECURSIVE assignNamesLastFirst(_, _, _)
assignNamesLastFirst(tgt, ns, raws) ==
    IF raws = <<>> THEN <<>>
    ELSE LET later == assignNamesLastFirst(tgt, ns, Tail(raws))
         IN  << assignName(nameStyle(tgt, ns, raws[1]),
                           forbiddenWords(tgt, ns) \cup {later[i] : i \in DOMAIN later}) >>
                 \o later

\* Namer.assignNames: the names of the entities with raw names raws, assigned in
\* graph order
RECURSIVE assignNames(_, _, _)
assignNames(tgt, ns, raws) ==
    IF raws = <<>> THEN <<>>
    ELSE LET n == Len(raws)
             earlier == assignNames(tgt, ns, SubSeq(raws, 1, n - 1))
         IN  Append(earlier,
                    assignName(nameStyle(tgt, ns, raws[n]),
                               forbiddenWords(tgt, ns)
                                   \cup {earlier[i] : i \in DOMAIN earlier}))

(***************************************************************************)
(* The type IR.  A type is a record tagged by its kind; classes, enums and *)
(* unions are named types and carry the name their namer assigned.         *)
(***************************************************************************)
Prim(k) == [kind |-> k]
ArrayOf(t) == [kind |-> "array", items |-> t]
MapOf(t) == [kind |-> "map", values |-> t]
ClassRef(n) == [kind |-> "class", name |-> n]
EnumRef(n) == [kind |-> "enum", name |-> n]
\* children is the ordered set of members (no duplicates)
UnionOf(n, members) == [kind |-> "union", name |-> n, children |-> members]

NullType == Prim("null")
NoType == [kind |-> "none"]

Range(s) == {s[i] : i \in DOMAIN s}

\* removeNullFromUnion: the null member (or NoType) and the ordered non-null members
removeNullFromUnion(u) ==
    << IF NullType \in Range(u.children) THEN NullType ELSE NoType,
       SelectSeq(u.children, LAMBDA m : m # NullType) >>

\* nullableFromUnion: the single non-null member of a union that also has null
nullableFromUnion(u) ==
    LET r == removeNullFromUnion(u)
    IN  IF r[1] # NoType /\ Len(r[2]) = 1 THEN r[2][1] ELSE NoType

nameForNamedType(t) == t.name

RECURSIVE intercalate(_, _)
intercalate(separator, items) ==
    IF items = <<>> THEN ""
    ELSE IF Len(items) = 1 THEN items[1]
    ELSE items[1] \o separator \o intercalate(separator, Tail(items))

(***************************************************************************)
(* RubyRenderer: marshalsImplicitly, dryType, fromDynamic, toDynamic.      *)
(***************************************************************************)
RECURSIVE marshalsImplicitly(_)
\* marshalsImplicitly with a map treated like an array (its values decide)
marshalsImplicitlyMapAsArray(t) ==
    CASE t.kind \in {"any", "null", "bool", "integer", "double", "string"} -> TRUE
      [] t.kind = "array" -> marshalsImplicitly(t.items)
      [] t.kind = "class" -> FALSE
      [] t.kind = "map" -> marshalsImplicitly(t.values)
      [] t.kind = "enum" -> TRUE
      [] t.kind = "union" ->
            LET nullable == nullableFromUnion(t)
            IN  IF nullable # NoType
                THEN marshalsImplicitly(nullable)
                ELSE \A i \in DOMAIN t.children : marshalsImplicitly(t.children[i])

marshalsImplicitly(t) ==
    CASE t.kind \in {"any", "null", "bool", "integer", "double", "string"} -> TRUE
      [] t.kind = "array" -> marshalsImplicitly(t.items)
      [] t.kind = "class" -> FALSE
      [] t.kind = "map" -> FALSE
      [] t.kind = "enum" -> TRUE
      [] t.kind = "union" ->
            LET nullable == nullableFromUnion(t)
            IN  IF nullable # NoType
                THEN marshalsImplicitly(nullable)
                ELSE \A i \in DOMAIN t.children : marshalsImplicitly(t.children[i])

RECURSIVE dryType(_, _)
dryType(t, isOptional) ==
    LET optional == IF isOptional THEN ".optional" ELSE ""
    IN  CASE t.kind = "any" -> "Types::Any" \o optional
          [] t.kind = "null" -> "Types::Nil" \o optional
          [] t.kind = "bool" -> "Types::Strict::Bool" \o optional
          [] t.kind = "integer" -> "Types::Strict::Int" \o optional
          [] t.kind = "double" -> "Types::Strict::Decimal" \o optional
          [] t.kind = "string" -> "Types::Strict::String" \o optional
          [] t.kind = "array" -> "Types.Array(" \o dryType(t.items, FALSE) \o ")" \o optional
          [] t.kind = "class" -> "Types.Instance(" \o nameForNamedType(t) \o ")" \o optional
          [] t.kind = "map" ->
                "Types::Strict::Hash.meta(of: " \o dryType(t.values, FALSE) \o ")" \o optional
          [] t.kind = "enum" -> "Types::" \o nameForNamedType(t) \o optional
          [] t.kind = "union" ->
                LET nullable == nullableFromUnion(t)
                IN  IF nullable # NoType
                    THEN dryType(nullable, FALSE) \o ".optional"
                    ELSE IF marshalsImplicitly(t)
                    THEN LET children == [i \in DOMAIN t.children |->
                                              dryType(t.children[i], FALSE)]
                             union == intercalate(" | ", children)
                         IN  IF isOptional THEN "(" \o union \o ")" \o optional ELSE union
                    ELSE "Types.Instance(" \o nameForNamedType(t) \o ")" \o optional

RECURSIVE fromDynamic(_, _, _)
\* fromDynamic with an enum passed through without the lookup
fromDynamicEnumRaw(t, e, optional) ==
    CASE t.kind \in {"any", "null", "bool", "integer", "double", "string", "enum"} -> e
      [] t.kind = "array" ->
            e \o (IF optional THEN "&" ELSE "") \o ".map { |x| "
              \o fromDynamic(t.items, "x", FALSE) \o " }"
      [] t.kind = "class" ->
            LET expression == nameForNamedType(t) \o ".from_dynamic(" \o e \o ")"
            IN  IF optional THEN e \o " ? " \o expression \o " : nil" ELSE expression
      [] t.kind = "map" ->
            e \o (IF optional THEN "&" ELSE "") \o ".map { |k, v| [k, "
              \o fromDynamic(t.values, "v", FALSE) \o "] }.to_h"
      [] t.kind = "union" ->
            LET nullable == nullableFromUnion(t)
            IN  IF nullable # NoType
                THEN e \o ".nil? ? nil : " \o fromDynamic(nullable, e, FALSE)
                ELSE "raise 'implement union from_dynamic'"

\* fromDynamic with no fragment returned for a union that is not a nullable
fromDynamicNoStub(t, e, optional) ==
    CASE t.kind \in {"any", "null", "bool", "integer", "double", "string"} -> e
      [] t.kind = "array" ->
            e \o (IF optional THEN "&" ELSE "") \o ".map { |x| "
              \o fromDynamic(t.items, "x", FALSE) \o " }"
      [] t.kind = "class" ->
            LET expression == nameForNamedType(t) \o ".from_dynamic(" \o e \o ")"
            IN  IF optional THEN e \o " ? " \o expression \o " : nil" ELSE expression
      [] t.kind = "map" ->
            e \o (IF optional THEN "&" ELSE "") \o ".map { |k, v| [k, "
              \o fromDynamic(t.values, "v", FALSE) \o "] }.to_h"
      [] t.kind = "enum" ->
            LET expression == "Types::" \o nameForNamedType(t) \o "[" \o e \o "]"
            IN  IF optional THEN e \o ".nil? ? nil : " \o expression ELSE expression
      [] t.kind = "union" ->
            LET nullable == nullableFromUnion(t)
            IN  IF nullable # NoType
                THEN e \o ".nil? ? nil : " \o fromDynamic(nullable, e, FALSE)
                ELSE ""

fromDynamic(t, e, optional) ==
    CASE t.kind \in {"any", "null", "bool", "integer", "double", "string"} -> e
      [] t.kind = "array" ->
            e \o (IF optional THEN "&" ELSE "") \o ".map { |x| "
              \o fromDynamic(t.items, "x", FALSE) \o " }"
      [] t.kind = "class" ->
            LET expression == nameForNamedType(t) \o ".from_dynamic(" \o e \o ")"
            IN  IF optional THEN e \o " ? " \o expression \o " : nil" ELSE expression
      [] t.kind = "map" ->
            e \o (IF optional THEN "&" ELSE "") \o ".map { |k, v| [k, "
              \o fromDynamic(t.values, "v", FALSE) \o "] }.to_h"
      [] t.kind = "enum" ->
            LET expression == "Types::" \o nameForNamedType(t) \o "[" \o e \o "]"
            IN  IF optional THEN e \o ".nil? ? nil : " \o expression ELSE expression
      [] t.kind = "union" ->
            LET nullable == nullableFromUnion(t)
            IN  IF nullable # NoType
                THEN e \o ".nil? ? nil : " \o fromDynamic(nullable, e, FALSE)
                ELSE "raise 'implement union from_dynamic'"

RECURSIVE toDynamic(_, _, _)
toDynamic(t, e, optional) ==
    CASE t.kind \in {"any", "null", "bool", "integer", "double", "string"} -> e
      [] t.kind = "array" ->
            e \o (IF optional THEN "&" ELSE "") \o ".map { |x| "
              \o toDynamic(t.items, "x", FALSE) \o " }"
      [] t.kind = "class" -> e \o (IF optional THEN "&" ELSE "") \o ".to_dynamic"
      [] t.kind = "map" ->
            e \o (IF optional THEN "&" ELSE "") \o ".map { |k, v| [k, "
              \o toDynamic(t.values, "v", FALSE) \o "] }.to_h"
      [] t.kind = "enum" -> e
      [] t.kind = "union" ->
            LET nullable == nullableFromUnion(t)
            IN  IF nullable # NoType
                THEN e \o ".nil? ? nil : " \o fromDynamic(nullable, e, FALSE)
                ELSE "raise 'implement union to_dynamic'"

(***************************************************************************)
(* KotlinRenderer: kotlinType and the property type of renderClassDefinition*)
(***************************************************************************)
RECURSIVE kotlinType(_, _, _)
\* kotlinType with a nullable rendered like any other union, by its name
kotlinTypeNullableNamed(t, withIssues, noOptional) ==
    LET optional == IF noOptional THEN "" ELSE "?"
    IN  CASE t.kind \in {"any", "null"} -> "Any" \o optional
          [] t.kind = "bool" -> "Boolean"
          [] t.kind = "integer" -> "Int"
          [] t.kind = "double" -> "Double"
          [] t.kind = "string" -> "String"
          [] t.kind = "array" -> "List<" \o kotlinType(t.items, withIssues, FALSE) \o ">"
          [] t.kind = "map" ->
                "Map<String, " \o kotlinType(t.values, withIssues, FALSE) \o ">"
          [] t.kind \in {"class", "enum", "union"} -> nameForNamedType(t)

kotlinType(t, withIssues, noOptional) ==
    LET optional == IF noOptional THEN "" ELSE "?"
    IN  CASE t.kind = "any" -> "Any" \o optional
          [] t.kind = "null" -> "Any" \o optional
          [] t.kind = "bool" -> "Boolean"
          [] t.kind = "integer" -> "Int"
          [] t.kind = "double" -> "Double"
          [] t.kind = "string" -> "String"
          [] t.kind = "array" -> "List<" \o kotlinType(t.items, withIssues, FALSE) \o ">"
          [] t.kind = "class" -> nameForNamedType(t)
          [] t.kind = "map" ->
                "Map<String, " \o kotlinType(t.values, withIssues, FALSE) \o ">"
          [] t.kind = "enum" -> nameForNamedType(t)
          [] t.kind = "union" ->
                LET nullable == nullableFromUnion(t)
                IN  IF nullable # NoType
                    THEN kotlinType(nullable, withIssues, FALSE) \o optional
                    ELSE nameForNamedType(t)

\* the guard renderUnionConverter puts before the constructor of member t
toJsonValueGuard(t) ==
    CASE t.kind = "bool" -> "is Bool"
      [] t.kind = "integer" -> "is Int"
      [] t.kind = "string" -> "is String"
      [] t.kind \in {"any", "null", "double", "array", "class", "map", "enum", "union"} -> "is Any"

kotlinPropertyType(p) ==
    IF p.isOptional
    THEN kotlinType(p.type, TRUE, TRUE) \o "?"
    ELSE kotlinType(p.type, TRUE, FALSE)

(***************************************************************************)
(* The type graphs the renderer is run on.  A graph is the pokedex shape   *)
(* cut down: class Pokemon { id: integer, <one property> }, class          *)
(* Evolution { num, name: string }, enum Egg, and one or two top-levels.   *)
(***************************************************************************)
Evolution == ClassRef("Evolution")
Pokemon == ClassRef("Pokemon")
Egg == EnumRef("Egg")
\* the further named types of the pokedex schema
Weakness == EnumRef("Weakness")
TopLevelClass == ClassRef("TopLevel")

BaseTypes ==
    {Prim(k) : k \in {"any", "null", "bool", "integer", "double", "string"}}
        \cup {Evolution, Egg}

\* members of the unions that are not nullables, in graph order
UnionMemberBase == << NullType, Prim("integer"), Prim("string"), Evolution >>

RECURSIVE SubSeqs(_)
SubSeqs(s) ==
    IF s = <<>> THEN {<<>>}
    ELSE LET rest == SubSeqs(Tail(s))
         IN  rest \cup {<<Head(s)>> \o r : r \in rest}

Unions == {UnionOf("Union", m) : m \in {x \in SubSeqs(UnionMemberBase) : Len(x) >= 2}}

CanBeNullable(t) == t.kind \notin {"union", "any", "null"}

Wrap(S) ==
    {ArrayOf(t) : t \in S} \cup {MapOf(t) : t \in S}
        \cup {UnionOf("Union", <<NullType, t>>) : t \in {x \in S : CanBeNullable(x)}}

RECURSIVE TypesOfDepth(_)
TypesOfDepth(n) ==
    IF n = 0 THEN BaseTypes
    ELSE BaseTypes \cup Unions \cup Wrap(TypesOfDepth(n - 1))

PropertyTypes == TypesOfDepth(MaxDepth)

KeyNextEvolution == << 110, 101, 120, 116, 95, 101, 118, 111, 108, 117, 116, 105, 111, 110 >>
KeyEgg == << 101, 103, 103 >>
KeyId == << 105, 100 >>
KeyNum == << 110, 117, 109 >>
KeyName == << 110, 97, 109, 101 >>

KeyClass == << 99, 108, 97, 115, 115 >>

\* the raw JSON names the second property of Pokemon is drawn from
PropertyKeys == {KeyNextEvolution, KeyEgg, KeyClass}

\* the raw JSON name of a property and the identifier its namer assigned
PropertyNames ==
    { [name |-> assignNames("ruby", "properties", << KeyId, k >>)[2], jsonName |-> k] :
        k \in PropertyKeys }

Property(n, t, o) == [name |-> n.name, jsonName |-> n.jsonName, type |-> t, isOptional |-> o]

\* the case strings of Egg: "Not in Eggs", "10 km", "2 km", and one with BEL and a quote
CaseNotInEggs == << 78, 111, 116, 32, 105, 110, 32, 69, 103, 103, 115 >>
Case10KM == << 49, 48, 32, 107, 109 >>
Case2KM == << 50, 32, 107, 109 >>
CaseBell == << 97, 7, 34 >>

EnumCase(n, j) == [name |-> n, json |-> j]

EnumCaseLists ==
    { << EnumCase("NotInEggs", CaseNotInEggs), EnumCase("The10KM", Case10KM),
         EnumCase("The2KM", Case2KM) >>,
      << EnumCase("The2KM", Case2KM), EnumCase("A", CaseBell) >>,
      << EnumCase("The10KM", Case10KM) >> }

DefaultCases == << EnumCase("The10KM", Case10KM) >>

RECURSIVE Subterms(_)
Subterms(t) ==
    {t} \cup
    CASE t.kind = "array" -> Subterms(t.items)
      [] t.kind = "map" -> Subterms(t.values)
      [] t.kind = "union" -> UNION {Subterms(t.children[i]) : i \in DOMAIN t.children}
      [] OTHER -> {}

isNamedType(t) ==
    \/ t.kind \in {"class", "enum"}
    \/ t.kind = "union" /\ nullableFromUnion(t) = NoType

TopLevel(n, t) == [name |-> n, type |-> t]

\* the top-levels of a graph: the class itself, an array of it, the class and
\* a second top-level of the property's type, which has the name of that type
\* when the type is a named one ("named"), or the pokedex schema
TopLevelShapes == {"class", "array", "alias", "named", "pokedex"}

TopLevelsOf(shape, t) ==
    CASE shape = "class" -> <<TopLevel("Pokemon", Pokemon)>>
      [] shape = "array" -> <<TopLevel("TopLevel", ArrayOf(Pokemon))>>
      [] shape = "alias" -> <<TopLevel("Pokemon", Pokemon), TopLevel("Other", t)>>
      [] shape = "named" ->
            <<TopLevel("Pokemon", Pokemon),
              TopLevel(IF isNamedType(t) THEN nameForNamedType(t) ELSE "Other", t)>>
      [] shape = "pokedex" -> <<TopLevel("TopLevel", TopLevelClass)>>

\* the pokedex schema: TopLevel { pokemon: Pokemon[] }, and Pokemon with egg,
\* weaknesses and next_evolution
isPokedex(g) == g.topLevels = TopLevelsOf("pokedex", g.prop.type)

\* the JSON names of the properties that carry a description
DescribedSets(n) == SUBSET {KeyId, n.jsonName}

\* the lines of the description of a described property
DescriptionLines == << "A description.", "Its second line." >>

Graphs ==
    { [prop |-> Property(n, t, o), enumCases |-> c, topLevels |-> TopLevelsOf(k, t),
       described |-> ds] :
        n \in PropertyNames, t \in PropertyTypes, o \in BOOLEAN,
        c \in EnumCaseLists, k \in TopLevelShapes,
        ds \in UNION {DescribedSets(x) : x \in PropertyNames} }

WellFormed(g) ==
    /\ g.described \in DescribedSets(g.prop)
    /\ (Egg \notin Subterms(g.prop.type) => g.enumCases = DefaultCases)
    /\ (Len(g.topLevels) = 2 =>
           (isNamedType(g.prop.type) <=> g.topLevels[2].name # "Other"))
    \* the shape of the top-levels is varied for one property name only
    /\ (g.topLevels # TopLevelsOf("class", g.prop.type) =>
           g.described = {} /\ g.prop.jsonName = KeyEgg)
    /\ (isPokedex(g) =>
           /\ g.prop = Property([name |-> "egg", jsonName |-> KeyEgg], Egg, FALSE)
           /\ g.described = {})

(***************************************************************************)
(* The emit engine.  An emitter is [lines, indent]: the finished lines and *)
(* the depth of the indentation stack.                                     *)
(***************************************************************************)
defaultIndentation == "  "

RECURSIVE Repeat(_, _)
Repeat(str, n) == IF n <= 0 THEN "" ELSE str \o Repeat(str, n - 1)

Max(S) == CHOOSE m \in S : \A x \in S : x <= m

emitLine(r, source) ==
    [r EXCEPT !.lines =
        Append(@, IF source = "" THEN "" ELSE Repeat(defaultIndentation, r.indent) \o source)]

ensureBlankLine(r) ==
    IF r.lines # <<>> /\ r.lines[Len(r.lines)] # "" THEN emitLine(r, "") ELSE r

\* indent(f) runs f one level deeper: indentOpen before f, indentClose after it
indentOpen(r) == [r EXCEPT !.indent = @ + 1]

indentClose(r) == [r EXCEPT !.indent = @ - 1]

RECURSIVE emitLines(_, _)
emitLines(r, sources) ==
    IF sources = <<>> THEN r ELSE emitLines(emitLine(r, Head(sources)), Tail(sources))

\* the width of the cell of the first row taken for the width of the column
columnWidthFirstRow(rows, c) == Len(rows[1][c])

columnWidth(rows, c) == Max({Len(rows[i][c]) : i \in DOMAIN rows})

RECURSIVE rowText(_, _, _)
rowText(rows, i, c) ==
    LET cell == rows[i][c]
    IN  IF c = Len(rows[i]) THEN cell
        ELSE cell \o Repeat(" ", columnWidth(rows, c) - Len(cell)) \o rowText(rows, i, c + 1)

\* the line start of emitCommentLines when the caller gives none
commentLineStart(tgt) == IF tgt = "ruby" THEN "# " ELSE "// "

\* emitCommentLines(lines, lineStart, beforeLine, afterLine); "" stands for
\* an absent beforeLine or afterLine
emitCommentLines(r, lines, lineStart, beforeLine, afterLine) ==
    LET r1 == IF beforeLine # "" THEN emitLine(r, beforeLine) ELSE r
        r2 == emitLines(r1, [i \in DOMAIN lines |-> lineStart \o lines[i]])
    IN  IF afterLine # "" THEN emitLine(r2, afterLine) ELSE r2

emitTable(r, rows) == emitLines(r, [i \in DOMAIN rows |-> rowText(rows, i, 1)])

(***************************************************************************)
(* The driver's view of the graph.                                         *)
(***************************************************************************)
IdProperty == [name |-> "id", jsonName |-> KeyId, type |-> Prim("integer"), isOptional |-> FALSE]
NumProperty == [name |-> "num", jsonName |-> KeyNum, type |-> Prim("string"), isOptional |-> FALSE]
NameProperty == [name |-> "name", jsonName |-> KeyName, type |-> Prim("string"), isOptional |-> FALSE]

\* forEachClassProperty: the properties of c in declaration order
KeyWeaknesses == << 119, 101, 97, 107, 110, 101, 115, 115, 101, 115 >>
KeyPokemon == << 112, 111, 107, 101, 109, 111, 110 >>

WeaknessesProperty ==
    [name |-> "weaknesses", jsonName |-> KeyWeaknesses, type |-> ArrayOf(Weakness),
     isOptional |-> FALSE]
NextEvolutionProperty ==
    [name |-> "next_evolution", jsonName |-> KeyNextEvolution, type |-> ArrayOf(Evolution),
     isOptional |-> TRUE]
PokemonProperty ==
    [name |-> "pokemon", jsonName |-> KeyPokemon, type |-> ArrayOf(Pokemon),
     isOptional |-> FALSE]

classProperties(g, c) ==
    IF c = TopLevelClass THEN << PokemonProperty >>
    ELSE IF c = Pokemon /\ isPokedex(g)
    THEN << IdProperty, g.prop, WeaknessesProperty, NextEvolutionProperty >>
    ELSE IF c = Pokemon THEN << IdProperty, g.prop >>
    ELSE << NumProperty, NameProperty >>

\* descriptionForClassProperty: the description lines, or none
descriptionForClassProperty(g, c, jsonName) ==
    IF jsonName \in g.described
          /\ \E k \in DOMAIN classProperties(g, c) : classProperties(g, c)[k].jsonName = jsonName
    THEN DescriptionLines
    ELSE NoType

\* forEachEnumCase: the cases of e in order, each with its assigned name
\* the first cases of Weakness: "Bug", "Dark"
CaseBug == << 66, 117, 103 >>
CaseDark == << 68, 97, 114, 107 >>
WeaknessCases == << EnumCase("Bug", CaseBug), EnumCase("Dark", CaseDark) >>

enumCases(g, e) == IF e = Weakness THEN WeaknessCases ELSE g.enumCases

\* forEachNamedType: the named types reachable from the top-levels, leaves first
\* a renderer that does not need declarations before use
needsTypeDeclarationBeforeUseFalse == FALSE

needsTypeDeclarationBeforeUse == TRUE

\* the named types with every type after the types its declaration refers to
declarationOrder(g) ==
    LET reach == Subterms(g.prop.type)
        pick(S) == IF S = {} THEN <<>> ELSE <<CHOOSE x \in S : TRUE>>
    IN  IF isPokedex(g) THEN << Egg, Evolution, Weakness, Pokemon, TopLevelClass >>
        ELSE pick(reach \cap {Egg}) \o pick(reach \cap {Evolution})
               \o pick({u \in reach : u.kind = "union" /\ isNamedType(u)}) \o <<Pokemon>>

\* the named types in graph-insertion order: a type comes before the types
\* that were found through it
insertionOrder(g) ==
    LET order == declarationOrder(g)
    IN  [i \in DOMAIN order |-> order[Len(order) + 1 - i]]

namedTypes(g) ==
    IF needsTypeDeclarationBeforeUse THEN declarationOrder(g) ELSE insertionOrder(g)

namedTypeToNameForTopLevel(t) == IF isNamedType(t) THEN t ELSE NoType

\* nameForUnionMember: the member namer's name for member t of a union
nameForUnionMember(u, t) ==
    CASE t.kind = "class" -> "evolution"
      [] OTHER -> t.kind

\* lodash snakeCase on the top-level names of the model
snakeCase(name) ==
    CASE name = "TopLevel" -> "top_level"
      [] name = "Pokemon" -> "pokemon"
      [] name = "Other" -> "other"
      [] name = "Evolution" -> "evolution"
      [] name = "Egg" -> "egg"
      [] name = "Union" -> "union"

(***************************************************************************)
(* RubyRenderer: emitBlock, emitClass, emitEnum, emitUnion,                *)
(* emitEnumDeclaration.                                                    *)
(***************************************************************************)
\* emitBlockClose with the closing line emitted before the indentation is popped
emitBlockCloseDeep(r) == indentClose(emitLine(r, "end"))

\* emitBlock(source, emit): emitBlockOpen, then what emit emits, then emitBlockClose
emitBlockOpen(r, source) == indentOpen(emitLine(r, source))

emitBlockClose(r) == emitLine(indentClose(r), "end")

\* emitClass: the attribute row of every property
attributeTable(g, c) ==
    LET props == classProperties(g, c)
    IN  [i \in DOMAIN props |->
            << "attribute :" \o props[i].name \o ",",
               " " \o dryType(props[i].type, FALSE)
                   \o (IF props[i].isOptional THEN ".optional" ELSE "") >>]

\* the expression with the converter always generated
fromDynamicExpressionConverted(p) ==
    fromDynamic(p.type, "d[\"" \o stringEscape(p.jsonName) \o "\"]", p.isOptional)

\* emitClass: the expression of one property in def self.from_dynamic
fromDynamicExpression(p) ==
    LET dynamic == "d[\"" \o stringEscape(p.jsonName) \o "\"]"
    IN  IF marshalsImplicitly(p.type) THEN dynamic
        ELSE fromDynamic(p.type, dynamic, p.isOptional)

emitDescriptionBlock(r, lines) == emitCommentLines(r, lines, "# ", "", "")

\* the attribute declarations with the pending rows flushed only after the loop
RECURSIVE emitAttributesFlushLast(_, _, _, _, _)
emitAttributesFlushLast(g, r, c, i, pending) ==
    LET props == classProperties(g, c)
    IN  IF i > Len(props)
        THEN (IF Len(pending) > 0 THEN emitTable(r, pending) ELSE r)
        ELSE LET last == (i = Len(props))
                 description == descriptionForClassProperty(g, c, props[i].jsonName)
                 attribute == attributeTable(g, c)[i]
             IN  IF description # NoType
                 THEN LET r2 == emitDescriptionBlock(ensureBlankLine(r), description)
                          r3 == emitLine(r2, attribute[1] \o attribute[2])
                          r4 == IF ~last THEN ensureBlankLine(r3) ELSE r3
                      IN  emitAttributesFlushLast(g, r4, c, i + 1, pending)
                 ELSE emitAttributesFlushLast(g, r, c, i + 1, Append(pending, attribute))

\* the attribute declarations with a blank line emitted wherever the callback
\* calls ensureBlankLine
RECURSIVE emitAttributesBlankLines(_, _, _, _, _)
emitAttributesBlankLines(g, r, c, i, pending) ==
    LET props == classProperties(g, c)
    IN  IF i > Len(props)
        THEN (IF Len(pending) > 0 THEN emitTable(r, pending) ELSE r)
        ELSE LET last == (i = Len(props))
                 description == descriptionForClassProperty(g, c, props[i].jsonName)
                 attribute == attributeTable(g, c)[i]
             IN  IF description # NoType
                 THEN LET r1 == IF Len(pending) > 0 THEN emitTable(r, pending) ELSE r
                          r2 == emitDescriptionBlock(emitLine(r1, ""), description)
                          r3 == emitLine(r2, attribute[1] \o attribute[2])
                          r4 == IF ~last THEN emitLine(r3, "") ELSE r3
                      IN  emitAttributesBlankLines(g, r4, c, i + 1, <<>>)
                 ELSE emitAttributesBlankLines(g, r, c, i + 1, Append(pending, attribute))

\* emitClass: the callback of forEachClassProperty for properties i.. of c and
\* the flush after the loop; table holds the rows not yet emitted
RECURSIVE emitAttributes(_, _, _, _, _)
emitAttributes(g, r, c, i, pending) ==
    LET props == classProperties(g, c)
    IN  IF i > Len(props)
        THEN (IF Len(pending) > 0 THEN emitTable(r, pending) ELSE r)
        ELSE LET last == (i = Len(props))
                 description == descriptionForClassProperty(g, c, props[i].jsonName)
                 attribute == attributeTable(g, c)[i]
             IN  IF description # NoType
                 THEN LET r1 == IF Len(pending) > 0 THEN emitTable(r, pending) ELSE r
                          r2 == emitDescriptionBlock(ensureBlankLine(r1), description)
                          r3 == emitLine(r2, attribute[1] \o attribute[2])
                          r4 == IF ~last THEN ensureBlankLine(r3) ELSE r3
                      IN  emitAttributes(g, r4, c, i + 1, <<>>)
                 ELSE emitAttributes(g, r, c, i + 1, Append(pending, attribute))

\* the initialisers with the isOptional flag of every property dropped
fromDynamicInitsUnflagged(g, c) ==
    LET props == classProperties(g, c)
    IN  [i \in DOMAIN props |->
            << props[i].name \o ": ",
               fromDynamicExpression([props[i] EXCEPT !.isOptional = FALSE]) \o "," >>]

fromDynamicInits(g, c) ==
    LET props == classProperties(g, c)
    IN  [i \in DOMAIN props |->
            << props[i].name \o ": ", fromDynamicExpression(props[i]) \o "," >>]

\* emitClass: the expression of one property in def to_dynamic
toDynamicExpression(p) ==
    LET dynamic == "@" \o p.name
    IN  IF marshalsImplicitly(p.type) THEN dynamic
        ELSE toDynamic(p.type, dynamic, p.isOptional)

toDynamicInits(g, c) ==
    LET props == classProperties(g, c)
    IN  [i \in DOMAIN props |->
            << "\"" \o stringEscape(props[i].jsonName) \o "\"",
               " => " \o toDynamicExpression(props[i]) \o "," >>]

\* the class with its attribute declarations after the converter methods
emitClassConvertersFirst(g, r, c, className) ==
    LET r1 == emitBlockOpen(r, "class " \o className \o " < Dry::Struct")
        a3 == emitLine(emitBlockOpen(r1, "def self.from_dynamic(d)"), className \o ".new(")
        b3 == emitTable(indentOpen(a3), fromDynamicInits(g, c))
        r3 == emitBlockClose(emitLine(indentClose(b3), ")"))
        a4 == emitBlockOpen(ensureBlankLine(r3), "def self.from_json(json)")
        r4 == emitBlockClose(emitLine(a4, "from_dynamic(JSON.parse(json))"))
        a5 == emitLine(emitBlockOpen(ensureBlankLine(r4), "def to_dynamic"), "{")
        b5 == emitTable(indentOpen(a5), toDynamicInits(g, c))
        r5 == emitBlockClose(emitLine(indentClose(b5), "}"))
        a6 == emitBlockOpen(ensureBlankLine(r5), "def to_json(options = nil)")
        r6 == emitBlockClose(emitLine(a6, "JSON.generate(to_dynamic, options)"))
    IN  emitBlockClose(emitAttributes(g, ensureBlankLine(r6), c, 1, <<>>))

emitClass(g, r, c, className) ==
    LET r1 == emitBlockOpen(r, "class " \o className \o " < Dry::Struct")
        r2 == ensureBlankLine(emitAttributes(g, r1, c, 1, <<>>))
        a3 == emitLine(emitBlockOpen(r2, "def self.from_dynamic(d)"), className \o ".new(")
        b3 == emitTable(indentOpen(a3), fromDynamicInits(g, c))
        r3 == emitBlockClose(emitLine(indentClose(b3), ")"))
        a4 == emitBlockOpen(ensureBlankLine(r3), "def self.from_json(json)")
        r4 == emitBlockClose(emitLine(a4, "from_dynamic(JSON.parse(json))"))
        a5 == emitLine(emitBlockOpen(ensureBlankLine(r4), "def to_dynamic"), "{")
        b5 == emitTable(indentOpen(a5), toDynamicInits(g, c))
        r5 == emitBlockClose(emitLine(indentClose(b5), "}"))
        a6 == emitBlockOpen(ensureBlankLine(r5), "def to_json(options = nil)")
        r6 == emitBlockClose(emitLine(a6, "JSON.generate(to_dynamic, options)"))
    IN  emitBlockClose(r6)

\* the value table with the cases in reverse order
enumTableReversed(g, e) ==
    LET cases == enumCases(g, e)
        n == Len(cases)
    IN  [i \in DOMAIN cases |->
            << cases[n + 1 - i].name,
               " = \"" \o stringEscape(cases[n + 1 - i].json) \o "\"" >>]

enumTable(g, e) ==
    LET cases == enumCases(g, e)
    IN  [i \in DOMAIN cases |->
            << cases[i].name, " = \"" \o stringEscape(cases[i].json) \o "\"" >>]

emitEnum(g, r, e, enumName) ==
    emitBlockClose(emitTable(emitBlockOpen(r, "module " \o enumName), enumTable(g, e)))

unionTable(u) ==
    LET removed == removeNullFromUnion(u)
        maybeNull == removed[1]
        nonNulls == removed[2]
        members == [i \in DOMAIN nonNulls |->
                       << "attribute :" \o nameForUnionMember(u, nonNulls[i]) \o ", ",
                          dryType(nonNulls[i], TRUE) >>]
    IN  IF maybeNull # NoType
        THEN Append(members, << "attribute :" \o nameForUnionMember(u, maybeNull) \o ", ",
                                dryType(maybeNull, FALSE) >>)
        ELSE members

emitUnion(r, u, unionName) ==
    IF marshalsImplicitly(u) THEN r
    ELSE emitBlockClose(emitTable(emitBlockOpen(r, "class " \o unionName \o " < Dry::Struct"),
                                  unionTable(u)))

enumDeclaration(g, e, name) ==
    LET cases == enumCases(g, e)
        literals == [i \in DOMAIN cases |->
                        (IF i = 1 THEN "" ELSE ", ") \o "\"" \o stringEscape(cases[i].json) \o "\""]
    IN  name \o " = Types::String.enum(" \o intercalate("", literals) \o ")"

emitEnumDeclaration(g, r, e, name) == emitLine(r, enumDeclaration(g, e, name))

(***************************************************************************)
(* KotlinRenderer.emitSourceStructure                                      *)
(* (just types): the header, the top-level aliases, and one callback of    *)
(* forEachNamedType per named type.                                        *)
(***************************************************************************)
\* the identifier lowerNamingFunction assigned to a property
kotlinPropertyName(p) ==
    IF p.jsonName \in PropertyKeys
    THEN assignNames("kotlin", "properties", << KeyId, p.jsonName >>)[2]
    ELSE assignNames("kotlin", "properties", << p.jsonName >>)[1]

\* the identifier the union member namer assigned to member t
kotlinNameForUnionMember(u, t) ==
    CASE t.kind = "class" -> "EvolutionValue"
      [] t.kind = "integer" -> "IntegerValue"
      [] t.kind = "string" -> "StringValue"
      [] t.kind = "null" -> "NullValue"

\* emitBlock(line, f) with curly delimiters: kotlinEmitBlockOpen, f, kotlinEmitBlockClose
kotlinEmitBlockOpen(r, line) == indentOpen(emitLine(r, line \o " {"))

kotlinEmitBlockClose(r) == emitLine(indentClose(r), "}")

renderTopLevelAlias(r, tl) ==
    emitLine(r, "typealias " \o tl.name \o " = " \o kotlinType(tl.type, TRUE, FALSE))

RECURSIVE renderTopLevelAliases(_, _)
renderTopLevelAliases(r, tls) ==
    IF tls = <<>> THEN r
    ELSE renderTopLevelAliases(renderTopLevelAlias(ensureBlankLine(r), Head(tls)), Tail(tls))

\* renderClassDefinition: the fragments of the line of each property
kotlinPropertyRows(g, c) ==
    LET props == classProperties(g, c)
    IN  [i \in DOMAIN props |->
            LET p == props[i]
                nullable == p.isOptional \/ p.type.kind = "null"
            IN  << "val " \o kotlinPropertyName(p) \o ": ",
                   kotlinPropertyType(p),
                   (IF nullable THEN " = null" ELSE "")
                       \o (IF i = Len(props) THEN "" ELSE ",") >>]

kotlinEmitDescriptionBlock(r, lines) == emitCommentLines(r, lines, " * ", "/**", " */")

\* shouldOmit under a framework that never omits a property
shouldOmitNever(fw, t) == FALSE

RECURSIVE shouldOmit(_, _)
shouldOmit(fw, t) ==
    /\ fw = "klaxon"
    /\ CASE t.kind = "array" -> shouldOmit(fw, t.items)
         [] t.kind = "map" -> shouldOmit(fw, t.values)
         [] t.kind = "union" ->
               LET nullable == nullableFromUnion(t)
               IN  IF nullable = NoType THEN TRUE ELSE shouldOmit(fw, nullable)
         [] t.kind \in {"any", "null", "bool", "integer", "double", "string", "class", "enum"} ->
               FALSE

\* klaxonRenameAttribute: the @Json attribute of a property; "" stands for
\* undefined
klaxonRenameAttribute(propName, jsonName, ignore) ==
    LET escapedName == stringEscape(jsonName)
        namesDiffer == propName # escapedName
        properties == (IF namesDiffer THEN << "name = \"" \o escapedName \o "\"" >> ELSE <<>>)
                          \o (IF ignore THEN << "ignored = true" >> ELSE <<>>)
    IN  IF properties = <<>> THEN ""
        ELSE "@Json(" \o intercalate(", ", properties) \o ")"

KlaxonLimitation == "// Due to limitations in Klaxon, this property is ignored"

\* renderClassDefinition: the callback of forEachClassProperty for one
\* property: the list meta (the description, the lines of the Klaxon
\* framework) between blank lines, then the property line; rename "" stands
\* for undefined
kotlinEmitProperty(r, fw, first, last, description, omit, rename, row) ==
    LET meta == description # NoType \/ (fw = "klaxon" /\ (omit \/ rename # ""))
        r1 == IF meta /\ ~first THEN ensureBlankLine(r) ELSE r
        r2 == IF description # NoType
              THEN kotlinEmitDescriptionBlock(r1, description) ELSE r1
        r2a == IF fw = "klaxon" /\ omit THEN emitLine(r2, KlaxonLimitation) ELSE r2
        r2b == IF rename # ""
               THEN emitLine(r2a, (IF omit THEN "// " ELSE "") \o rename) ELSE r2a
        r3 == emitLine(r2b, (IF omit THEN "// " ELSE "") \o row[1] \o row[2] \o row[3])
    IN  IF meta /\ ~last THEN ensureBlankLine(r3) ELSE r3

\* renderClassDefinition: the callback of forEachClassProperty for properties i..
RECURSIVE kotlinEmitProperties(_, _, _, _, _)
kotlinEmitProperties(g, fw, r, c, i) ==
    LET props == classProperties(g, c)
        rows == kotlinPropertyRows(g, c)
    IN  IF i > Len(props) THEN r
        ELSE kotlinEmitProperties(g, fw,
                 kotlinEmitProperty(r, fw, i = 1, i = Len(props),
                     descriptionForClassProperty(g, c, props[i].jsonName),
                     shouldOmit(fw, props[i].type),
                     IF fw = "klaxon"
                     THEN klaxonRenameAttribute(kotlinPropertyName(props[i]),
                                                props[i].jsonName,
                                                shouldOmit(fw, props[i].type))
                     ELSE "",
                     rows[i]),
                 c, i + 1)

\* renderClassDefinition: what follows the properties, the closing parenthesis
\* or, under Klaxon, the body with toJson and the companion object
renderClassTail(fw, r, className) ==
    IF fw = "klaxon"
    THEN kotlinEmitBlockClose(kotlinEmitBlockClose(
             emitLine(
                 kotlinEmitBlockOpen(
                     ensureBlankLine(
                         emitLine(kotlinEmitBlockOpen(r, ")"),
                                  "public fun toJson() = klaxon.toJsonString(this as Any)")),
                     "companion object"),
                 "public fun fromJson(json: String) = klaxon.parse<" \o className \o ">(json)")))
    ELSE emitLine(r, ")")

renderClassDefinition(g, fw, r, c, className) ==
    renderClassTail(fw,
        indentClose(kotlinEmitProperties(g, fw,
            indentOpen(emitLine(r, "data class " \o className \o " (")), c, 1)),
        className)

\* renderEnumConverter: the Klaxon converter object of an enum
renderEnumConverter(g, r, e, enumName) ==
    LET cases == enumCases(g, e)
        toRows == [i \in DOMAIN cases |->
                      << enumName \o "." \o cases[i].name,
                         " -> " \o "\"" \o stringEscape(cases[i].json) \o "\"" >>]
                      \o << << "else", " -> null" >> >>
        fromRows == [i \in DOMAIN cases |->
                        << "\"" \o stringEscape(cases[i].json) \o "\"",
                           " -> " \o enumName \o "." \o cases[i].name >>]
                        \o << << "else", " -> throw IllegalArgumentException(\"Invalid "
                                              \o enumName \o "\")" >> >>
        a == kotlinEmitBlockOpen(r, "val convert" \o enumName \o " = object: Converter<"
                                        \o enumName \o ">")
        b == kotlinEmitBlockOpen(a, "override fun toJson(value: " \o enumName
                                        \o "): String? = when (value)")
        c == ensureBlankLine(kotlinEmitBlockClose(emitTable(b, toRows)))
        e1 == kotlinEmitBlockOpen(c, "override fun fromJson(jv: JsonValue): " \o enumName
                                         \o " = when (jv.inside)")
    IN  kotlinEmitBlockClose(kotlinEmitBlockClose(emitTable(e1, fromRows)))

\* forEachEnum: the enums among the named types
namedEnums(g) == SelectSeq(namedTypes(g), LAMBDA t : t.kind = "enum")

\* forEachEnum("leading-and-interposing", renderEnumConverter)
RECURSIVE renderEnumConverters(_, _, _)
renderEnumConverters(g, r, enums) ==
    IF enums = <<>> THEN r
    ELSE renderEnumConverters(g,
             renderEnumConverter(g, ensureBlankLine(r), Head(enums),
                                 nameForNamedType(Head(enums))),
             Tail(enums))

\* emitSourceStructure: the block under this._framework === Framework.Klaxon
renderKlaxon(g, r) ==
    LET a == ensureBlankLine(renderEnumConverters(g, r, namedEnums(g)))
        b == indentOpen(emitLine(a, "private val klaxon ="))
        c == indentOpen(emitLine(b, "Klaxon()"))
        e == emitLines(c, [i \in DOMAIN namedEnums(g) |->
                 ".converter(convert" \o nameForNamedType(namedEnums(g)[i]) \o ")"])
    IN  indentClose(indentClose(e))

\* camelCase on the top-level names of the model
camelCase(name) ==
    CASE name = "TopLevel" -> "topLevel"
      [] name = "Pokemon" -> "pokemon"
      [] name = "Other" -> "other"
      [] name = "Evolution" -> "evolution"
      [] name = "Egg" -> "egg"
      [] name = "Union" -> "union"

renderHeader(g, fw, comments, r) ==
    LET a == IF comments # NoType
             THEN emitCommentLines(r, comments, commentLineStart("kotlin"), "", "")
             ELSE IF fw # "none"
             THEN emitLines(
                      emitLines(r, << "// To parse the JSON, add this file to your project and do:",
                                      "//" >>),
                      [i \in DOMAIN g.topLevels |->
                          "//   val " \o camelCase(g.topLevels[i].name) \o " = "
                              \o g.topLevels[i].name \o ".fromJson(jsonString)"])
             ELSE r
        b == ensureBlankLine(a)
    IN  IF fw = "klaxon" THEN emitLine(b, "import com.beust.klaxon.*") ELSE b

renderEnumDefinition(g, r, e, enumName) ==
    LET cases == enumCases(g, e)
    IN  kotlinEmitBlockClose(
            emitLines(kotlinEmitBlockOpen(r, "enum class " \o enumName),
                      [i \in DOMAIN cases |->
                          cases[i].name \o (IF i = Len(cases) THEN "" ELSE ",")]))

\* removeNullFromUnion(u, sortBy) keeps the model's member order: "_integer" <
\* "_string" < "class"
kotlinUnionTable(u, unionName) ==
    LET removed == removeNullFromUnion(u)
        maybeNull == removed[1]
        nonNulls == removed[2]
        members == [i \in DOMAIN nonNulls |->
                       << "class " \o kotlinNameForUnionMember(u, nonNulls[i]) \o "(val value: "
                              \o kotlinType(nonNulls[i], FALSE, FALSE) \o ")",
                          ": " \o unionName \o "()" >>]
    IN  IF maybeNull # NoType
        THEN Append(members, << "class " \o kotlinNameForUnionMember(u, maybeNull) \o "()",
                                ": " \o unionName \o "()" >>)
        ELSE members

renderUnionDefinition(r, u, unionName) ==
    kotlinEmitBlockClose(emitTable(kotlinEmitBlockOpen(r, "sealed class " \o unionName),
                                   kotlinUnionTable(u, unionName)))

(***************************************************************************)
(* The generated Ruby program.  JSON.parse yields dynamic values: nil,     *)
(* scalars, arrays and string-keyed hashes; from_dynamic builds structs.   *)
(* A raised exception makes the value of the whole expression Raised.      *)
(***************************************************************************)
Nil == [nil |-> TRUE]
Num(n) == [int |-> n]
Str(codePoints) == [str |-> codePoints]
Arr(items) == [arr |-> items]
Hash(entries) == [hash |-> entries]
Struct(c, attrs) == [struct |-> c.name, attrs |-> attrs]
Raised == [raised |-> TRUE]

isArr(v) == "arr" \in DOMAIN v
isHash(v) == "hash" \in DOMAIN v
isStruct(v) == "struct" \in DOMAIN v

\* an expression whose parts raise, raises
MkArr(items) == IF \E k \in DOMAIN items : items[k] = Raised THEN Raised ELSE Arr(items)
MkHash(entries) ==
    IF \E k \in DOMAIN entries : entries[k] = Raised THEN Raised ELSE Hash(entries)
MkStruct(c, attrs) ==
    IF \E k \in DOMAIN attrs : attrs[k] = Raised THEN Raised ELSE Struct(c, attrs)

KeyK == << 107 >>
SampleString == << 97 >>
NotACase == << 122 >>

\* the JSON values of type t the model feeds to the generated code; with
\* strict = FALSE also strings that are no case of an enum
RECURSIVE JsonSamples(_, _, _)
JsonSamples(g, t, strict) ==
    CASE t.kind \in {"any", "integer", "double"} -> {Num(1)}
      [] t.kind = "null" -> {Nil}
      [] t.kind = "bool" -> {[bool |-> TRUE]}
      [] t.kind = "string" -> {Str(SampleString)}
      [] t.kind = "enum" ->
            {Str(enumCases(g, t)[k].json) : k \in DOMAIN enumCases(g, t)}
                \cup (IF strict THEN {} ELSE {Str(NotACase)})
      [] t.kind = "class" ->
            {Hash([k \in {KeyNum, KeyName} |-> Str(SampleString)])}
      [] t.kind = "array" ->
            {Arr(<<>>)} \cup {Arr(<<x>>) : x \in JsonSamples(g, t.items, strict)}
      [] t.kind = "map" ->
            {Hash([k \in {KeyK} |-> x]) : x \in JsonSamples(g, t.values, strict)}
      [] t.kind = "union" ->
            UNION {JsonSamples(g, t.children[k], strict) : k \in DOMAIN t.children}

\* the JSON objects for class Pokemon; an absent optional key reads as nil
Documents(g, strict) ==
    LET props == classProperties(g, Pokemon)
        sample(k) == LET p == CHOOSE p \in Range(props) : p.jsonName = k
                     IN  CHOOSE x \in JsonSamples(g, p.type, TRUE) : TRUE
    IN  {Hash([k \in {props[i].jsonName : i \in DOMAIN props} |->
                  IF k = g.prop.jsonName THEN v ELSE sample(k)]) :
            v \in JsonSamples(g, g.prop.type, strict)
                    \cup (IF g.prop.isOptional THEN {Nil} ELSE {})}

\* d["key"]; on a struct the library either reads the attribute or raises
rbIndex(v, p, reads) ==
    IF isHash(v) THEN (IF p.jsonName \in DOMAIN v.hash THEN v.hash[p.jsonName] ELSE Nil)
    ELSE IF isStruct(v) /\ reads /\ p.name \in DOMAIN v.attrs THEN v.attrs[p.name]
    ELSE Raised

\* Types::E[v]: the string when it is a case of E, a constraint error otherwise
enumLookup(g, e, v) ==
    IF \E k \in DOMAIN enumCases(g, e) : v = Str(enumCases(g, e)[k].json) THEN v ELSE Raised

RECURSIVE rbFromDynamic(_, _, _, _, _)
RECURSIVE rbClassFromDynamic(_, _, _, _)

\* the value of the expression fromDynamic(t, e, optional) where e evaluates to v
rbFromDynamic(g, t, v, optional, reads) ==
    CASE t.kind \in {"any", "null", "bool", "integer", "double", "string"} -> v
      [] t.kind = "array" ->
            IF v = Nil THEN (IF optional THEN Nil ELSE Raised)
            ELSE IF ~isArr(v) THEN Raised
            ELSE MkArr([k \in DOMAIN v.arr |->
                           rbFromDynamic(g, t.items, v.arr[k], FALSE, reads)])
      [] t.kind = "class" ->
            IF optional /\ v = Nil THEN Nil ELSE rbClassFromDynamic(g, t, v, reads)
      [] t.kind = "map" ->
            IF v = Nil THEN (IF optional THEN Hash(<<>>) ELSE Raised)
            ELSE IF ~isHash(v) THEN Raised
            ELSE MkHash([k \in DOMAIN v.hash |->
                            rbFromDynamic(g, t.values, v.hash[k], FALSE, reads)])
      [] t.kind = "enum" ->
            IF optional /\ v = Nil THEN Nil ELSE enumLookup(g, t, v)
      [] t.kind = "union" ->
            LET nullable == nullableFromUnion(t)
            IN  IF nullable # NoType
                THEN (IF v = Nil THEN Nil ELSE rbFromDynamic(g, nullable, v, FALSE, reads))
                ELSE Raised

\* C.from_dynamic(v): C.new with the initialiser of every property
rbClassFromDynamic(g, c, v, reads) ==
    LET props == classProperties(g, c)
        init(p) == IF marshalsImplicitly(p.type) THEN rbIndex(v, p, reads)
                   ELSE rbFromDynamic(g, p.type, rbIndex(v, p, reads), p.isOptional, reads)
    IN  MkStruct(c, [n \in {props[k].name : k \in DOMAIN props} |->
                        init(CHOOSE p \in Range(props) : p.name = n)])

RECURSIVE rbToDynamic(_, _, _, _, _)
RECURSIVE rbClassToDynamic(_, _, _, _)

\* the value of the expression toDynamic(t, e, optional) where e evaluates to v
rbToDynamic(g, t, v, optional, reads) ==
    CASE t.kind \in {"any", "null", "bool", "integer", "double", "string"} -> v
      [] t.kind = "array" ->
            IF v = Nil THEN (IF optional THEN Nil ELSE Raised)
            ELSE IF ~isArr(v) THEN Raised
            ELSE MkArr([k \in DOMAIN v.arr |->
                           rbToDynamic(g, t.items, v.arr[k], FALSE, reads)])
      [] t.kind = "class" ->
            IF v = Nil THEN (IF optional THEN Nil ELSE Raised)
            ELSE rbClassToDynamic(g, t, v, reads)
      [] t.kind = "map" ->
            IF v = Nil THEN (IF optional THEN Hash(<<>>) ELSE Raised)
            ELSE IF ~isHash(v) THEN Raised
            ELSE MkHash([k \in DOMAIN v.hash |->
                            rbToDynamic(g, t.values, v.hash[k], FALSE, reads)])
      [] t.kind = "enum" -> v
      [] t.kind = "union" ->
            LET nullable == nullableFromUnion(t)
            IN  IF nullable # NoType
                THEN (IF v = Nil THEN Nil ELSE rbFromDynamic(g, nullable, v, FALSE, reads))
                ELSE Raised

\* v.to_dynamic: the hash with the entry of every property
rbClassToDynamic(g, c, v, reads) ==
    LET props == classProperties(g, c)
        entry(p) == IF marshalsImplicitly(p.type) THEN v.attrs[p.name]
                    ELSE rbToDynamic(g, p.type, v.attrs[p.name], p.isOptional, reads)
    IN  IF ~isStruct(v) THEN Raised
        ELSE MkHash([k \in {props[j].jsonName : j \in DOMAIN props} |->
                        entry(CHOOSE p \in Range(props) : p.jsonName = k)])

(***************************************************************************)
(* RubyRenderer.emitSourceStructure, one action per step of the method:    *)
(* the header, the Types module, one callback of forEachNamedType per      *)
(* named type, and the top-level wrappers.                                 *)
(***************************************************************************)
\* the emitter of the renderer, as the step before left it
Emitter(lines, n) == [lines |-> lines, indent |-> n]

emitHeader(g, comments, r) ==
    LET r1 == emitLine(emitLine(r, "# To parse JSON, add 'dry-struct' and 'dry-types' gems, then:"), "#")
        r2 == emitLines(r1, [i \in DOMAIN g.topLevels |->
                  "#   " \o snakeCase(g.topLevels[i].name) \o " = " \o g.topLevels[i].name
                         \o ".from_json \"...\""])
        r3 == ensureBlankLine(
                  IF comments # NoType
                  THEN emitCommentLines(r, comments, commentLineStart("ruby"), "", "")
                  ELSE emitLine(r2, "#"))
    IN  ensureBlankLine(emitLines(r3, << "require 'json'", "require 'dry-types'",
                                         "require 'dry-struct'" >>))

\* no enum is declared in the Types module
emitEnumDeclarationsNone(g, r, types) == r

RECURSIVE emitEnumDeclarations(_, _, _)
emitEnumDeclarations(g, r, types) ==
    IF types = <<>> THEN r
    ELSE emitEnumDeclarations(g,
             IF Head(types).kind = "enum"
             THEN emitEnumDeclaration(g, r, Head(types), nameForNamedType(Head(types)))
             ELSE r,
             Tail(types))

emitTypesModule(g, r) ==
    LET a == emitLine(emitBlockOpen(r, "module Types"), "include Dry::Types.module")
    IN  emitBlockClose(emitEnumDeclarations(g, a, namedTypes(g)))

topLevelSource(tl) ==
    << fromDynamic(tl.type, "JSON.parse(json)", FALSE), toDynamic(tl.type, "self", FALSE) >>

emitTopLevel(r, tl) ==
    LET self == snakeCase(tl.name)
        source == topLevelSource(tl)
        a == emitBlockOpen(r, "class " \o tl.name)
        b == emitLine(emitBlockOpen(a, "def self.from_json(json)"), self \o " = " \o source[1])
        c == emitBlockOpen(b, self \o ".define_singleton_method(:to_json) do")
        e == emitBlockClose(emitLine(c, "JSON.generate(" \o source[2] \o ")"))
    IN  emitBlockClose(emitBlockClose(emitLine(e, self)))

\* forEachTopLevel with the predicate of emitSourceStructure
wrappedTopLevels(g) ==
    SelectSeq(g.topLevels, LAMBDA tl : namedTypeToNameForTopLevel(tl.type) = NoType)

RECURSIVE emitTopLevels(_, _)
emitTopLevels(r, tls) ==
    IF tls = <<>> THEN r
    ELSE emitTopLevels(emitTopLevel(ensureBlankLine(r), Head(tls)), Tail(tls))

\* the raw names the entities of a namespace are drawn from: class, END, type,
\* next_evolution, next evolution, and the Egg cases 10 km, 2 km, Not in Eggs
RawEnd == << 69, 78, 68 >>
RawType == << 116, 121, 112, 101 >>
RawNextEvolution == << 110, 101, 120, 116, 32, 101, 118, 111, 108, 117, 116, 105, 111, 110 >>

RawNames ==
    { KeyClass, RawEnd, RawType, KeyNextEvolution, RawNextEvolution,
      Case10KM, Case2KM, CaseNotInEggs }

\* the sequences of raw names of length 1..n
RECURSIVE RawSeqs(_)
RawSeqs(n) ==
    IF n = 0 THEN {}
    ELSE RawSeqs(n - 1) \cup [1..n -> RawNames]

\* property keys, enum cases and union members are sets: no raw name twice;
\* two types may be proposed the same name
Entities(space, s) ==
    space = "types" \/ \A i, j \in DOMAIN s : i # j => s[i] # s[j]

\* the graph rendered while one namespace is looked at
NamesGraph ==
    [prop |-> Property([name |-> "egg", jsonName |-> KeyEgg], Prim("string"), FALSE),
     enumCases |-> DefaultCases, topLevels |-> TopLevelsOf("class", Prim("string")),
     described |-> {}]

\* the values of the framework option of the Kotlin target
Frameworks == {"none", "klaxon"}

\* the leading comments of a render that is given some
LeadingComments == << "Generated from pokedex.json", "Do not edit." >>

\* the graphs that are also rendered with leading comments
Commented(g) == g.described = {} /\ g.enumCases = DefaultCases /\ ~g.prop.isOptional

\* the graphs that are rendered a second time
RenderedTwice(g) == Commented(g)

InitRender ==
    /\ next = 1
    /\ out = <<>>
    /\ depth = 0
    /\ table = <<>>
    /\ fromInits = <<>>
    /\ toInits = <<>>
    /\ topSource = <<>>
    /\ d = NoType
    /\ obj = NoType
    /\ dyn = NoType

\* either the render of a graph, where the namer of the properties of class
\* Pokemon is followed, or the name assignment of one namespace
Init ==
    /\ target \in {"ruby", "kotlin"}
    /\ previous = <<>>
    /\ framework \in (IF target = "kotlin" THEN Frameworks ELSE {"none"})
    /\ InitRender
    /\ before = <<>>
    /\ addedAt = 0
    /\ assigned = <<>>
    /\ \/ /\ graph \in {g \in Graphs : WellFormed(g)}
          /\ leadingComments \in (IF Commented(graph) THEN {NoType, LeadingComments}
                                  ELSE {NoType})
          /\ pc = "setup"
          /\ namespace = "properties"
          /\ entities = << KeyId, graph.prop.jsonName >>
       \/ /\ graph = NamesGraph
          /\ leadingComments = NoType
          /\ pc = "names"
          /\ namespace \in Namespaces
          /\ entities \in {s \in RawSeqs(MaxNames) : Entities(namespace, s)}

\* the names are left unassigned by the first phase
AssignNamesNot ==
    /\ pc \in {"names", "extended", "setup"}
    /\ assigned' = <<>>
    /\ pc' = CASE pc = "names" -> "names-assigned"
              [] pc = "extended" -> "names-reassigned"
              [] pc = "setup" -> "header"
    /\ UNCHANGED <<renderVars, previous, optionVars, namespace, entities, before, addedAt>>

\* setUpNaming, the first phase of a render: the namer of the namespace
\* assigns every entity its name and is sealed; the emission follows
AssignNames ==
    /\ pc \in {"names", "extended", "setup"}
    /\ assigned' = assignNames(target, namespace, entities)
    /\ pc' = CASE pc = "names" -> "names-assigned"
              [] pc = "extended" -> "names-reassigned"
              [] pc = "setup" -> "header"
    /\ UNCHANGED <<renderVars, previous, optionVars, namespace, entities, before, addedAt>>

\* the graph is extended by one entity with raw name e at position at of the
\* graph order, and is rendered anew
AddEntity ==
    /\ pc = "names-assigned"
    /\ \E e \in RawNames, at \in 1..(Len(entities) + 1) :
          /\ Entities(namespace, entities \o << e >>)
          /\ entities' = SubSeq(entities, 1, at - 1) \o << e >> \o SubSeq(entities, at, Len(entities))
          /\ addedAt' = at
    /\ before' = assigned
    /\ assigned' = <<>>
    /\ pc' = "extended"
    /\ UNCHANGED <<renderVars, previous, optionVars, namespace>>

EmitHeader ==
    /\ target = "ruby"
    /\ pc = "header"
    /\ LET r == emitHeader(graph, leadingComments, Emitter(out, depth))
       IN  out' = r.lines /\ depth' = r.indent
    /\ pc' = "types"
    /\ UNCHANGED <<namingVars, previous, graph, optionVars, next, table, fromInits, toInits, topSource, d, obj, dyn>>

EmitTypesModule ==
    /\ target = "ruby"
    /\ pc = "types"
    /\ LET r == emitTypesModule(graph, Emitter(out, depth))
       IN  out' = r.lines /\ depth' = r.indent
    /\ pc' = "named"
    /\ UNCHANGED <<namingVars, previous, graph, optionVars, next, table, fromInits, toInits, topSource, d, obj, dyn>>

EmitClass ==
    /\ target = "ruby"
    /\ pc = "named"
    /\ next <= Len(namedTypes(graph))
    /\ LET c == namedTypes(graph)[next]
       IN  /\ c.kind = "class"
           /\ LET r == emitClass(graph, ensureBlankLine(Emitter(out, depth)), c, nameForNamedType(c))
              IN  out' = r.lines /\ depth' = r.indent
           /\ table' = attributeTable(graph, c)
           /\ fromInits' = fromDynamicInits(graph, c)
           /\ toInits' = toDynamicInits(graph, c)
    /\ next' = next + 1
    /\ UNCHANGED <<namingVars, previous, graph, optionVars, pc, topSource, d, obj, dyn>>

EmitEnum ==
    /\ target = "ruby"
    /\ pc = "named"
    /\ next <= Len(namedTypes(graph))
    /\ LET e == namedTypes(graph)[next]
       IN  /\ e.kind = "enum"
           /\ LET r == emitEnum(graph, ensureBlankLine(Emitter(out, depth)), e, nameForNamedType(e))
              IN  out' = r.lines /\ depth' = r.indent
    /\ next' = next + 1
    /\ UNCHANGED <<namingVars, previous, graph, optionVars, pc, table, fromInits, toInits, topSource, d, obj, dyn>>

EmitUnion ==
    /\ target = "ruby"
    /\ pc = "named"
    /\ next <= Len(namedTypes(graph))
    /\ LET u == namedTypes(graph)[next]
       IN  /\ u.kind = "union"
           /\ LET r == emitUnion(ensureBlankLine(Emitter(out, depth)), u, nameForNamedType(u))
              IN  out' = r.lines /\ depth' = r.indent
    /\ next' = next + 1
    /\ UNCHANGED <<namingVars, previous, graph, optionVars, pc, table, fromInits, toInits, topSource, d, obj, dyn>>

EmitTopLevels ==
    /\ target = "ruby"
    /\ pc = "named"
    /\ next > Len(namedTypes(graph))
    /\ LET r == emitTopLevels(Emitter(out, depth), wrappedTopLevels(graph))
       IN  out' = r.lines /\ depth' = r.indent
    /\ topSource' = [i \in DOMAIN wrappedTopLevels(graph) |->
                         topLevelSource(wrappedTopLevels(graph)[i])]
    /\ pc' = "done"
    /\ UNCHANGED <<namingVars, previous, graph, optionVars, next, table, fromInits, toInits, d, obj, dyn>>

RenderHeader ==
    /\ target = "kotlin"
    /\ pc = "header"
    /\ LET r == renderHeader(graph, framework, leadingComments, Emitter(out, depth))
       IN  out' = r.lines /\ depth' = r.indent
    /\ pc' = IF framework = "klaxon" THEN "converters" ELSE "aliases"
    /\ UNCHANGED <<namingVars, previous, graph, optionVars, next, table, fromInits, toInits, topSource, d, obj, dyn>>

\* emitSourceStructure: the enum converters and the klaxon value
RenderKlaxon ==
    /\ target = "kotlin"
    /\ pc = "converters"
    /\ LET r == renderKlaxon(graph, Emitter(out, depth))
       IN  out' = r.lines /\ depth' = r.indent
    /\ pc' = "aliases"
    /\ UNCHANGED <<namingVars, previous, graph, optionVars, next, table, fromInits, toInits, topSource, d, obj, dyn>>

RenderTopLevelAliases ==
    /\ target = "kotlin"
    /\ pc = "aliases"
    /\ LET r == renderTopLevelAliases(Emitter(out, depth), wrappedTopLevels(graph))
       IN  out' = r.lines /\ depth' = r.indent
    /\ topSource' = [i \in DOMAIN wrappedTopLevels(graph) |->
                         <<kotlinType(wrappedTopLevels(graph)[i].type, TRUE, FALSE)>>]
    /\ pc' = "named"
    /\ UNCHANGED <<namingVars, previous, graph, optionVars, next, table, fromInits, toInits, d, obj, dyn>>

RenderClassDefinition ==
    /\ target = "kotlin"
    /\ pc = "named"
    /\ next <= Len(namedTypes(graph))
    /\ LET c == namedTypes(graph)[next]
       IN  /\ c.kind = "class"
           /\ LET r == renderClassDefinition(graph, framework, ensureBlankLine(Emitter(out, depth)), c,
                                           nameForNamedType(c))
              IN  out' = r.lines /\ depth' = r.indent
           /\ table' = kotlinPropertyRows(graph, c)
    /\ next' = next + 1
    /\ pc' = IF next = Len(namedTypes(graph)) THEN "done" ELSE pc
    /\ UNCHANGED <<namingVars, previous, graph, optionVars, fromInits, toInits, topSource, d, obj, dyn>>

RenderEnumDefinition ==
    /\ target = "kotlin"
    /\ pc = "named"
    /\ next <= Len(namedTypes(graph))
    /\ LET e == namedTypes(graph)[next]
       IN  /\ e.kind = "enum"
           /\ LET r == renderEnumDefinition(graph, ensureBlankLine(Emitter(out, depth)), e,
                                          nameForNamedType(e))
              IN  out' = r.lines /\ depth' = r.indent
    /\ next' = next + 1
    /\ pc' = IF next = Len(namedTypes(graph)) THEN "done" ELSE pc
    /\ UNCHANGED <<namingVars, previous, graph, optionVars, table, fromInits, toInits, topSource, d, obj, dyn>>

RenderUnionDefinition ==
    /\ target = "kotlin"
    /\ pc = "named"
    /\ next <= Len(namedTypes(graph))
    /\ LET u == namedTypes(graph)[next]
       IN  /\ u.kind = "union"
           /\ LET r == renderUnionDefinition(ensureBlankLine(Emitter(out, depth)), u,
                                           nameForNamedType(u))
              IN  out' = r.lines /\ depth' = r.indent
    /\ next' = next + 1
    /\ pc' = IF next = Len(namedTypes(graph)) THEN "done" ELSE pc
    /\ UNCHANGED <<namingVars, previous, graph, optionVars, table, fromInits, toInits, topSource, d, obj, dyn>>

\* a second renderer is constructed on the same graph, with the same options
\* and leading comments, and is run after the first has returned; the emit
\* buffer is not cleared
RenderAgainOnUsedBuffer ==
    /\ pc = "done"
    /\ previous = <<>>
    /\ RenderedTwice(graph)
    /\ previous' = out
    /\ next' = 1
    /\ assigned' = <<>>
    /\ pc' = "setup"
    /\ UNCHANGED <<namespace, entities, before, addedAt, graph, optionVars, out, depth, table, fromInits, toInits, topSource, d, obj, dyn>>

\* a second renderer is constructed on the same graph, with the same options
\* and leading comments, and is run after the first has returned: the emit
\* buffer, the tables and the position in the named types are those of the
\* new renderer, the module-level constants are those the first render used
RenderAgain ==
    /\ pc = "done"
    /\ previous = <<>>
    /\ RenderedTwice(graph)
    /\ previous' = out
    /\ next' = 1
    /\ out' = <<>>
    /\ depth' = 0
    /\ table' = <<>>
    /\ fromInits' = <<>>
    /\ toInits' = <<>>
    /\ topSource' = <<>>
    /\ assigned' = <<>>
    /\ pc' = "setup"
    /\ UNCHANGED <<namespace, entities, before, addedAt, graph, optionVars, d, obj, dyn>>

\* the generated code of class Pokemon is run: JSON.parse, Pokemon.from_dynamic,
\* Pokemon#to_dynamic
Parse ==
    /\ target = "ruby"
    /\ pc = "done"
    /\ d' \in Documents(graph, FALSE)
    /\ pc' = "parsed"
    /\ UNCHANGED <<namingVars, previous, graph, optionVars, next, out, depth, table, fromInits, toInits, topSource, obj, dyn>>

FromDynamic ==
    /\ pc = "parsed"
    /\ obj' = rbClassFromDynamic(graph, Pokemon, d, FALSE)
    /\ pc' = "built"
    /\ UNCHANGED <<namingVars, previous, graph, optionVars, next, out, depth, table, fromInits, toInits, topSource, d, dyn>>

ToDynamic ==
    /\ pc = "built"
    /\ obj # Raised
    /\ \E reads \in BOOLEAN : dyn' = rbClassToDynamic(graph, Pokemon, obj, reads)
    /\ pc' = "serialised"
    /\ UNCHANGED <<namingVars, previous, graph, optionVars, next, out, depth, table, fromInits, toInits, topSource, d, obj>>

Next ==
    \/ AssignNames
    \/ AddEntity
    \/ EmitHeader
    \/ EmitTypesModule
    \/ EmitClass
    \/ EmitEnum
    \/ EmitUnion
    \/ EmitTopLevels
    \/ RenderHeader
    \/ RenderKlaxon
    \/ RenderTopLevelAliases
    \/ RenderClassDefinition
    \/ RenderEnumDefinition
    \/ RenderUnionDefinition
    \/ RenderAgain
    \/ Parse
    \/ FromDynamic
    \/ ToDynamic

Spec == Init /\ [][Next]_vars

(***************************************************************************)
(* Properties.                                                             *)
(***************************************************************************)
\* the types of the graph under render
GraphTypes == Subterms(graph.prop.type) \cup {Prim("integer"), Prim("string")}

isNullable(t) == t.kind = "union" /\ nullableFromUnion(t) # NoType

\* t is, or wraps at some depth, a class or a map
WrapsClassOrMap(t) == \E x \in Subterms(t) : x.kind \in {"class", "map"}

\* the class whose tables emitClass built last
EmittedClass ==
    LET emitted == {i \in 1..(next - 1) : namedTypes(graph)[i].kind = "class"}
    IN  namedTypes(graph)[Max(emitted)]

RubyClassEmitted == target = "ruby" /\ fromInits # <<>>

RawAccess(p) == "d[\"" \o stringEscape(p.jsonName) \o "\"]"

\* the property emitClass rendered in row i of its tables
EmittedProperty(i) == classProperties(graph, EmittedClass)[i]

\* sub occurs in the text s
Contains(s, sub) ==
    \E i \in 1..(Len(s) - Len(sub) + 1) : SubSeq(s, i, i + Len(sub) - 1) = sub

NullableOf(t) == UnionOf("Union", <<NullType, t>>)

\* every union of t is a nullable or implicitly marshalled
NoSumTypeButImplicit(t) ==
    \A x \in Subterms(t) : x.kind = "union" => isNullable(x) \/ marshalsImplicitly(x)

\* no union of t is a sum type
NoSumType(t) == \A x \in Subterms(t) : x.kind = "union" => isNullable(x)

\* C1: marshalsImplicitly is true for any, null, bool, integer, double, string
\* and enums, for an array exactly when its item type is implicit and for a
\* nullable exactly when its non-null member is; it is false for every class,
\* every map and every array or nullable that wraps a class or a map.  In
\* emitClass the initialiser of a property is the raw key access exactly when
\* its type wraps no class and no map.
C1_MarshalsImplicitly ==
    /\ \A t \in GraphTypes :
          /\ t.kind \in {"any", "null", "bool", "integer", "double", "string", "enum"}
                => marshalsImplicitly(t)
          /\ t.kind \in {"class", "map"} => ~marshalsImplicitly(t)
          /\ t.kind = "array" => marshalsImplicitly(t) = marshalsImplicitly(t.items)
          /\ isNullable(t) => marshalsImplicitly(t) = marshalsImplicitly(nullableFromUnion(t))
          /\ (t.kind = "array" \/ isNullable(t)) => marshalsImplicitly(t) = ~WrapsClassOrMap(t)
    /\ marshalsImplicitly(ArrayOf(Prim("string")))
    /\ marshalsImplicitly(UnionOf("Union", <<NullType, ArrayOf(Prim("double"))>>))
    /\ ~marshalsImplicitly(ArrayOf(Evolution))
    /\ RubyClassEmitted =>
          \A i \in DOMAIN fromInits :
              LET p == EmittedProperty(i)
              IN  (fromInits[i][2] = RawAccess(p) \o ",") = ~WrapsClassOrMap(p.type)

\* an optional array of decimal and an array of an array of a class were rendered
C1_Witness ==
    /\ RubyClassEmitted
    /\ EmittedClass = Pokemon
    /\ graph.prop.type \in { UnionOf("Union", <<NullType, ArrayOf(Prim("double"))>>),
                             ArrayOf(ArrayOf(Evolution)) }

\* C2: for every type t with marshalsImplicitly(t) the generated from_dynamic
\* and to_dynamic expressions are the input expression itself, wherever a
\* converter for t is generated: the initialisers of emitClass, the element
\* converters of arrays and maps, and the top-level wrappers.
C2_ImplicitIdentity ==
    /\ RubyClassEmitted =>
          \A i \in DOMAIN fromInits :
              LET p == EmittedProperty(i)
              IN  /\ marshalsImplicitly(p.type) =>
                        /\ fromInits[i][2] = RawAccess(p) \o ","
                        /\ toInits[i][2] = " => @" \o p.name \o ","
                  /\ p.type.kind = "map" /\ marshalsImplicitly(p.type.values) /\ ~p.isOptional =>
                        /\ fromInits[i][2] = RawAccess(p) \o ".map { |k, v| [k, v] }.to_h,"
                        /\ toInits[i][2] = " => @" \o p.name \o ".map { |k, v| [k, v] }.to_h,"
    /\ target = "ruby" /\ pc = "done" =>
          \A i \in DOMAIN topSource :
              marshalsImplicitly(wrappedTopLevels(graph)[i].type) =>
                  topSource[i] = << "JSON.parse(json)", "self" >>

\* C3: for every JSON object d that matches the schema (no sum types),
\* Pokemon.from_dynamic(d) does not raise and its to_dynamic is d again.
C3_RoundTrip ==
    NoSumType(graph.prop.type) /\ d \in Documents(graph, TRUE) =>
        /\ pc \in {"built", "serialised"} => obj # Raised
        /\ pc = "serialised" => dyn = d

\* C4: toDynamic of a nullable is the nil test followed by toDynamic of the
\* non-null member; no to_dynamic entry contains a from_dynamic call or an
\* enum lookup; the entry of a nullable array of Evolution is the stated line.
C4_ToDynamicNullable ==
    /\ RubyClassEmitted =>
          \A t \in GraphTypes :
              isNullable(t) =>
                  toDynamic(t, "e", FALSE)
                      = "e.nil? ? nil : " \o toDynamic(nullableFromUnion(t), "e", FALSE)
    /\ RubyClassEmitted =>
          \A i \in DOMAIN toInits :
              /\ ~Contains(toInits[i][2], "from_dynamic")
              /\ ~Contains(toInits[i][2], "Types::")
              /\ EmittedProperty(i).name = "next_evolution"
                    /\ EmittedProperty(i).type = NullableOf(ArrayOf(Evolution))
                 => toInits[i] =
                      << "\"next_evolution\"",
                         " => @next_evolution.nil? ? nil : @next_evolution.map { |x| x.to_dynamic }," >>

\* the state after emitClass rendered class Pokemon for the Ruby target
PokemonEmitted == RubyClassEmitted /\ EmittedClass = Pokemon

\* C5 as stated: the initialiser of an optional array of Evolution is the nil
\* test followed by the map, whether the property is flagged optional or its
\* type is a nullable union.
C5_NilTestEitherWay ==
    PokemonEmitted /\ graph.prop.name = "next_evolution"
        /\ \/ graph.prop.type = ArrayOf(Evolution) /\ graph.prop.isOptional
           \/ graph.prop.type = NullableOf(ArrayOf(Evolution))
    => fromInits[2] =
          << "next_evolution: ",
             "d[\"next_evolution\"].nil? ? nil : d[\"next_evolution\"].map { |x| Evolution.from_dynamic(x) }," >>

\* C5 amended: the nil-test form is emitted when the type is a nullable union;
\* when the array is optional by the isOptional flag the initialiser is the
\* safe-navigation form d["next_evolution"]&.map { ... }.
C5_OptionalArrayInitialiser ==
    PokemonEmitted /\ graph.prop.name = "next_evolution" =>
        /\ graph.prop.type = NullableOf(ArrayOf(Evolution)) =>
              fromInits[2] =
                 << "next_evolution: ",
                    "d[\"next_evolution\"].nil? ? nil : d[\"next_evolution\"].map { |x| Evolution.from_dynamic(x) }," >>
        /\ graph.prop.type = ArrayOf(Evolution) /\ graph.prop.isOptional =>
              fromInits[2] =
                 << "next_evolution: ",
                    "d[\"next_evolution\"]&.map { |x| Evolution.from_dynamic(x) }," >>
        /\ graph.prop.type = ArrayOf(Evolution) /\ ~graph.prop.isOptional =>
              fromInits[2] =
                 << "next_evolution: ",
                    "d[\"next_evolution\"].map { |x| Evolution.from_dynamic(x) }," >>

\* class Pokemon was rendered with next_evolution: array of Evolution, flagged optional
C5_Witness ==
    /\ PokemonEmitted
    /\ graph.prop.name = "next_evolution"
    /\ graph.prop.type = ArrayOf(Evolution)
    /\ graph.prop.isOptional

\* C6: the type expression of a declaration line is built by kind: integer
\* Types::Int, double Types::Decimal, string Types::String, enum E Types::E,
\* class C Types.Instance(C), array Types.Array(<item>), and .optional appended
\* for an optional property.
RECURSIVE DeclaredType(_)
DeclaredType(t) ==
    CASE t.kind = "integer" -> "Types::Int"
      [] t.kind = "double" -> "Types::Decimal"
      [] t.kind = "string" -> "Types::String"
      [] t.kind = "enum" -> "Types::" \o t.name
      [] t.kind = "class" -> "Types.Instance(" \o t.name \o ")"
      [] t.kind = "array" -> "Types.Array(" \o DeclaredType(t.items) \o ")"

\* the kinds C6 gives an expression for
Declarable(t) ==
    \A x \in Subterms(t) : x.kind \in {"integer", "double", "string", "enum", "class", "array"}

C6_DeclarationTypes ==
    RubyClassEmitted =>
        \A i \in DOMAIN table :
            LET p == EmittedProperty(i)
            IN  Declarable(p.type) =>
                    table[i] = << "attribute :" \o p.name \o ",",
                                  " " \o DeclaredType(p.type)
                                      \o (IF p.isOptional THEN ".optional" ELSE "") >>

\* a primitive, an array of primitives, or a nullable of either
Primitive(t) == t.kind \in {"any", "null", "bool", "integer", "double", "string"}

PrimitiveShaped(t) ==
    LET plain(x) == Primitive(x) \/ (x.kind = "array" /\ Primitive(x.items))
    IN  plain(t) \/ (isNullable(t) /\ plain(nullableFromUnion(t)))

\* C7: a property that is a primitive, an array of primitives, or an
\* optional/nullable of either is initialised by the raw key access d["<key>"].
C7_RawKeyAccess ==
    RubyClassEmitted =>
        \A i \in DOMAIN fromInits :
            LET p == EmittedProperty(i)
            IN  PrimitiveShaped(p.type) =>
                    fromInits[i] = << p.name \o ": ", RawAccess(p) \o "," >>

\* class Pokemon was rendered with an optional property of type nullable array of string
C7_Witness ==
    /\ PokemonEmitted
    /\ graph.prop.type = NullableOf(ArrayOf(Prim("string")))
    /\ graph.prop.isOptional

\* C8 as stated: an enum property is initialised by the lookup Types::E[d["<key>"]]
\* and an array of E by d["<key>"].map { |x| Types::E[x] }.
C8_EnumLookupInitialiser ==
    PokemonEmitted /\ graph.prop.name = "egg" =>
        /\ graph.prop.type = Egg /\ ~graph.prop.isOptional =>
              fromInits[2] = << "egg: ", "Types::Egg[d[\"egg\"]]," >>
        /\ graph.prop.type = ArrayOf(Egg) /\ ~graph.prop.isOptional =>
              fromInits[2] = << "egg: ", "d[\"egg\"].map { |x| Types::Egg[x] }," >>

\* C8 amended: a property of enum type E or of type array of E is initialised
\* by the raw key access; the lookup Types::E[...] is generated where the enum
\* is the value type of a map and in the top-level wrappers, and there a JSON
\* string that is not a case of E makes from_dynamic fail.
C8_EnumInitialiser ==
    /\ PokemonEmitted /\ graph.prop.name = "egg" =>
          /\ graph.prop.type \in {Egg, ArrayOf(Egg)} =>
                fromInits[2] = << "egg: ", "d[\"egg\"]," >>
          /\ graph.prop.type = MapOf(Egg) /\ ~graph.prop.isOptional =>
                fromInits[2] = << "egg: ", "d[\"egg\"].map { |k, v| [k, Types::Egg[v]] }.to_h," >>
    /\ target = "ruby" /\ pc = "done" /\ Len(graph.topLevels) = 2
          /\ graph.prop.type = ArrayOf(Egg) =>
          topSource[1][1] = "JSON.parse(json).map { |x| Types::Egg[x] }"
    /\ pc = "built" /\ graph.prop.type = MapOf(Egg) /\ ~graph.prop.isOptional =>
          (obj = Raised) = (d \notin Documents(graph, TRUE))

\* from_dynamic was run on a map with a value that is no case of Egg
C8_Witness ==
    /\ pc = "built"
    /\ graph.prop.type = MapOf(Egg)
    /\ ~graph.prop.isOptional
    /\ d \notin Documents(graph, TRUE)
    /\ obj = Raised

StartsWith(s, prefix) == Len(s) >= Len(prefix) /\ SubSeq(s, 1, Len(prefix)) = prefix

EndsWith(s, suffix) ==
    Len(s) >= Len(suffix) /\ SubSeq(s, Len(s) - Len(suffix) + 1, Len(s)) = suffix

\* the Ruby string literal of each case string of the model
CaseLiteral(json) ==
    CASE json = CaseNotInEggs -> "\"Not in Eggs\""
      [] json = Case10KM -> "\"10 km\""
      [] json = Case2KM -> "\"2 km\""
      [] json = CaseBell -> "\"a\\u{7}\"\""

EggRendered == target = "ruby" /\ Egg \in Range(namedTypes(graph))

C10_NullableIsOptional ==
    /\ pc # "header" =>
          \A t \in GraphTypes :
              isNullable(t) =>
                  LET member == nullableFromUnion(t)
                  IN  /\ t \notin Range(namedTypes(graph))
                      /\ \A o \in BOOLEAN :
                            /\ dryType(t, o) = dryType(member, FALSE) \o ".optional"
                            /\ kotlinType(t, o, FALSE) = kotlinType(member, o, FALSE) \o "?"
    /\ table # <<>> /\ EmittedClass = Pokemon /\ isNullable(graph.prop.type) =>
          LET member == nullableFromUnion(graph.prop.type)
          IN  table[2][2] =
                 IF target = "ruby"
                 THEN " " \o dryType(member, FALSE) \o ".optional"
                          \o (IF graph.prop.isOptional THEN ".optional" ELSE "")
                 ELSE kotlinType(member, TRUE, FALSE) \o "?"
    /\ pc = "done" /\ NoSumType(graph.prop.type) =>
          \A k \in DOMAIN out : ~Contains(out[k], "Union")

\* class Pokemon was rendered for Kotlin with a property of type Evolution | null
C10_Witness ==
    /\ target = "kotlin"
    /\ pc = "done"
    /\ graph.prop.type = NullableOf(Evolution)
    /\ table[2][2] = "Evolution?"

\* a union that is no nullable and whose members are all implicitly marshalled
ImplicitUnion(t) == t.kind = "union" /\ ~isNullable(t) /\ marshalsImplicitly(t)

\* the member type expressions of u joined by " | "
JoinedMembers(u) == intercalate(" | ", [i \in DOMAIN u.children |-> dryType(u.children[i], FALSE)])

\* C11: for a non-nullable union whose members are all implicitly marshalled
\* the Ruby target emits no struct container, renders the type as the member
\* expressions joined by " | ", and every converter generated for a value of
\* the union (class property, map element, element of a top-level array) is
\* the identity.
C11_ImplicitUnion ==
    /\ target = "ruby" /\ pc = "done" /\ (\E t \in GraphTypes : ImplicitUnion(t))
          /\ NoSumTypeButImplicit(graph.prop.type) =>
          \A k \in DOMAIN out : ~StartsWith(out[k], "class Union")
    /\ PokemonEmitted /\ ImplicitUnion(graph.prop.type) =>
          /\ ~graph.prop.isOptional => table[2][2] = " " \o JoinedMembers(graph.prop.type)
          /\ fromInits[2][2] = RawAccess(graph.prop) \o ","
          /\ toInits[2][2] = " => @" \o graph.prop.name \o ","
    /\ PokemonEmitted /\ graph.prop.type.kind = "map" /\ ImplicitUnion(graph.prop.type.values)
          /\ ~graph.prop.isOptional =>
          /\ fromInits[2][2] = RawAccess(graph.prop) \o ".map { |k, v| [k, v] }.to_h,"
          /\ toInits[2][2] = " => @" \o graph.prop.name \o ".map { |k, v| [k, v] }.to_h,"
    /\ target = "ruby" /\ pc = "done" /\ Len(graph.topLevels) = 2
          /\ graph.prop.type.kind = "array" /\ ImplicitUnion(graph.prop.type.items) =>
          /\ topSource[1][1] \in {"JSON.parse(json)", "JSON.parse(json).map { |x| x }"}
          /\ topSource[1][2] \in {"self", "self.map { |x| x }"}

\* a union that is neither a nullable nor implicitly marshalled
ExplicitSum(t) == t.kind = "union" /\ ~isNullable(t) /\ ~marshalsImplicitly(t)

\* one type of each JSON-level kind: Bool, Int, String, Array, Object, Null
GuardedKinds ==
    { Prim("bool"), Prim("integer"), Prim("string"), ArrayOf(Prim("string")), Evolution, NullType }

\* C12: for a union that is neither a nullable nor implicitly marshalled the
\* target emits a named wrapper with exactly one member per union member, the
\* value guards of its from-JSON converter are distinct per member kind, and
\* the converter accepts every value of a member (only a value matching no
\* guard raises).
C12_ExplicitSum ==
    LET u == graph.prop.type
        n == Len(u.children)
        removed == removeNullFromUnion(u)
        ordered == removed[2] \o (IF removed[1] # NoType THEN <<removed[1]>> ELSE <<>>)
    IN  /\ target = "ruby" /\ pc = "done" /\ ExplicitSum(u) =>
              \E k \in DOMAIN out :
                  /\ out[k] = "class Union < Dry::Struct"
                  /\ \A i \in 1..n :
                        StartsWith(out[k + i], "  attribute :" \o nameForUnionMember(u, ordered[i]) \o ",")
                  /\ out[k + n + 1] = "end"
        /\ target = "kotlin" /\ pc = "done" /\ ExplicitSum(u) =>
              /\ \E k \in DOMAIN out :
                    /\ out[k] = "sealed class Union {"
                    /\ \A i \in 1..n :
                          StartsWith(out[k + i], "  class " \o kotlinNameForUnionMember(u, ordered[i]) \o "(")
                    /\ out[k + n + 1] = "}"
              /\ \A a, b \in GuardedKinds : a # b => toJsonValueGuard(a) # toJsonValueGuard(b)
        /\ pc = "built" /\ ExplicitSum(u) /\ d \in Documents(graph, TRUE) => obj # Raised

\* the classes of the graph
GraphClasses == {c \in Range(namedTypes(graph)) : c.kind = "class"}

ClassHeader(c) == "class " \o nameForNamedType(c) \o " < Dry::Struct"

HeaderLines(c) == {k \in DOMAIN out : out[k] = ClassHeader(c)}

\* the emitted lines of class c, from its header to the end that closes it
ClassBlock(c) ==
    LET k == CHOOSE k \in HeaderLines(c) : TRUE
        e == CHOOSE e \in (k + 1)..Len(out) :
                 out[e] = "end" /\ \A j \in (k + 1)..(e - 1) : out[j] # "end"
    IN  SubSeq(out, k, e)

LinesOf(block, text) == {i \in DOMAIN block : block[i] = text}

AttributeLines(block) == {i \in DOMAIN block : StartsWith(block[i], "  attribute :")}

\* text is exactly one line of block, strictly between lines lo and hi
OnceBetween(block, text, lo, hi) ==
    /\ Cardinality(LinesOf(block, text)) = 1
    /\ \A i \in LinesOf(block, text) : lo < i /\ i < hi

\* C13: every class of the Ruby output has one header, then all its attribute
\* declarations, then from_dynamic, from_json, to_dynamic and to_json, each
\* once and in this order, then the closing end; no attribute declaration
\* comes after from_dynamic.
C13_ClassSectionsInOrder ==
    target = "ruby" /\ pc = "done" =>
        \A c \in GraphClasses :
            /\ Cardinality(HeaderLines(c)) = 1
            /\ LET block == ClassBlock(c)
                   n == Len(block)
                   fd == CHOOSE i \in LinesOf(block, "  def self.from_dynamic(d)") : TRUE
                   fj == CHOOSE i \in LinesOf(block, "  def self.from_json(json)") : TRUE
                   td == CHOOSE i \in LinesOf(block, "  def to_dynamic") : TRUE
                   tj == CHOOSE i \in LinesOf(block, "  def to_json(options = nil)") : TRUE
               IN  /\ block[1] = ClassHeader(c) /\ block[n] = "end"
                   /\ OnceBetween(block, "  def self.from_dynamic(d)", 1, n)
                   /\ OnceBetween(block, "  def self.from_json(json)", fd, n)
                   /\ OnceBetween(block, "  def to_dynamic", fj, n)
                   /\ OnceBetween(block, "  def to_json(options = nil)", td, n)
                   /\ Cardinality(AttributeLines(block)) = Len(classProperties(graph, c))
                   /\ \A i \in AttributeLines(block) : 1 < i /\ i < fd

C13_Witness ==
    /\ target = "ruby" /\ pc = "done"
    /\ GraphClasses = {Evolution, Pokemon}
    /\ graph.described = {KeyId}
    /\ Cardinality(AttributeLines(ClassBlock(Pokemon))) = 2
    /\ Len(ClassBlock(Evolution)) > 10

\* the members of the set S of line numbers in increasing order
SortedSeq(S) ==
    CHOOSE f \in [1..Cardinality(S) -> S] : \A i, j \in DOMAIN f : i < j => f[i] < f[j]

LineOf(block, text) == CHOOSE i \in LinesOf(block, text) : TRUE

\* C14: in every class of the Ruby output the attribute declarations, the
\* initialisers of from_dynamic and the entries of to_dynamic are one per
\* property, in the order of the class's properties, whichever properties
\* carry a description.
C14_PropertiesOnceInOrder ==
    target = "ruby" /\ pc = "done" =>
        \A c \in GraphClasses :
            LET block == ClassBlock(c)
                props == classProperties(graph, c)
                n == Len(props)
                attrs == SortedSeq(AttributeLines(block))
                new == LineOf(block, "    " \o nameForNamedType(c) \o ".new(")
                open == LineOf(block, "    {")
            IN  /\ Len(attrs) = n
                /\ \A i \in 1..n :
                       StartsWith(block[attrs[i]], "  attribute :" \o props[i].name \o ",")
                /\ block[new + n + 1] = "    )"
                /\ \A i \in 1..n : StartsWith(block[new + i], "      " \o props[i].name \o ":")
                /\ block[open + n + 1] = "    }"
                /\ \A i \in 1..n :
                       StartsWith(block[open + i],
                                  "      \"" \o stringEscape(props[i].jsonName) \o "\"")

\* the second property of Pokemon is described, so the row of the first is
\* flushed before the description is emitted
C14_Witness ==
    /\ target = "ruby" /\ pc = "done"
    /\ graph.described = {graph.prop.jsonName}
    /\ LET block == ClassBlock(Pokemon)
           attrs == SortedSeq(AttributeLines(block))
       IN  /\ Len(attrs) = 2
           /\ block[attrs[1] + 2] = "  # A description."
           /\ block[attrs[2] - 1] = "  # Its second line."

\* C15: in every class of the Ruby output the initialiser of a property reads
\* d["<raw JSON name>"] and its to_dynamic entry is written under the key
\* "<raw JSON name>", whatever identifier the property was given, and the keys
\* of one class are pairwise different.
C15_RawKeyKept ==
    target = "ruby" /\ pc = "done" =>
        \A c \in GraphClasses :
            LET block == ClassBlock(c)
                props == classProperties(graph, c)
                new == LineOf(block, "    " \o nameForNamedType(c) \o ".new(")
                open == LineOf(block, "    {")
            IN  /\ \A i \in DOMAIN props :
                       /\ StartsWith(block[new + i], "      " \o props[i].name \o ":")
                       /\ Contains(block[new + i], RawAccess(props[i]))
                       /\ StartsWith(block[open + i],
                                     "      \"" \o stringEscape(props[i].jsonName) \o "\" ")
                       /\ Contains(block[open + i], "=> ")
                       /\ Contains(block[open + i], "@" \o props[i].name)
                /\ \A i, j \in DOMAIN props :
                       i # j => stringEscape(props[i].jsonName) # stringEscape(props[j].jsonName)

\* the reserved words of the target
TargetKeywords == IF target = "ruby" THEN keywords ELSE kotlinKeywords

NamesAssigned == pc \in {"names-assigned", "names-reassigned"}

StartCharacters == {fromCodePoint(c) : c \in {x \in 65..122 : isStartCharacter(x)}}

PartCharacters == {fromCodePoint(c) : c \in {x \in 48..122 : isPartCharacter(x)}}

\* name is an identifier of the target
LegalIdentifier(name) ==
    /\ Len(name) > 0
    /\ SubSeq(name, 1, 1) \in StartCharacters
    /\ \A i \in 2..Len(name) : SubSeq(name, i, i) \in PartCharacters

\* C16: no identifier assigned to a type or to a class property is a reserved
\* word of the target; a property with the raw name class gets another, legal
\* identifier, and the generated code still uses the key "class" for it.
C16_NoForbiddenName ==
    /\ NamesAssigned /\ namespace \in {"types", "properties"} =>
           \A i \in DOMAIN assigned :
               /\ assigned[i] \notin TargetKeywords
               /\ assigned[i] \notin forbiddenWords(target, namespace)
               /\ LegalIdentifier(assigned[i])
               /\ (namespace = "properties" /\ entities[i] = KeyClass =>
                      assigned[i] # nameText(KeyClass))
    /\ pc = "done" /\ graph.prop.jsonName = KeyClass =>
           LET name == IF target = "ruby" THEN graph.prop.name
                       ELSE kotlinPropertyName(graph.prop)
           IN  /\ name \notin TargetKeywords /\ LegalIdentifier(name)
               /\ \E k \in DOMAIN out :
                      StartsWith(out[k], IF target = "ruby" THEN "  attribute :" \o name \o ","
                                         ELSE IF shouldOmit(framework, graph.prop.type)
                                         THEN "  // val " \o name \o ":"
                                         ELSE "  val " \o name \o ":")
               /\ (target = "ruby" =>
                      \E k \in DOMAIN out : StartsWith(out[k], "      \"class\" => "))

C16_Witness ==
    /\ pc = "names-reassigned"
    /\ namespace = "properties"
    /\ \E i \in DOMAIN entities :
          entities[i] = KeyClass /\ assigned[i] = "class_2" /\ i < Len(entities)

Distinct(s) == \A i, j \in DOMAIN s : i # j => s[i] # s[j]

\* C17: the identifiers assigned in one namespace (types, the properties of a
\* class, the cases of an enum, the members of a union) are pairwise
\* different, also when raw names are styled alike; the Egg cases "10 km",
\* "Not in Eggs", "2 km" are named The10KM, NotInEggs, The2KM; the names in
\* the rendered declarations of a class, an enum and a union are different.
C17_DistinctNames ==
    /\ NamesAssigned => Distinct(assigned)
    /\ NamesAssigned /\ namespace = "enum-cases"
          /\ entities = << Case10KM, CaseNotInEggs, Case2KM >> =>
           assigned = << "The10KM", "NotInEggs", "The2KM" >>
    /\ pc = "done" =>
           /\ \A c \in GraphClasses :
                  Distinct([i \in DOMAIN classProperties(graph, c) |->
                               IF target = "ruby" THEN classProperties(graph, c)[i].name
                               ELSE kotlinPropertyName(classProperties(graph, c)[i])])
           /\ Distinct([i \in DOMAIN graph.enumCases |-> graph.enumCases[i].name])
           /\ [i \in DOMAIN graph.enumCases |-> graph.enumCases[i].name]
                  = assignNames(target, "enum-cases",
                                [i \in DOMAIN graph.enumCases |-> graph.enumCases[i].json])
           /\ \A u \in {x \in Subterms(graph.prop.type) : x.kind = "union" /\ isNamedType(x)} :
                  Distinct([i \in DOMAIN u.children |->
                               IF target = "ruby" THEN nameForUnionMember(u, u.children[i])
                               ELSE kotlinNameForUnionMember(u, u.children[i])])

\* two raw names that are styled alike have been assigned names
C17_Witness ==
    /\ NamesAssigned
    /\ \E i, j \in DOMAIN entities :
          /\ i < j
          /\ entities[i] # entities[j]
          /\ nameStyle(target, namespace, entities[i]) = nameStyle(target, namespace, entities[j])
          /\ assigned[j] = assigned[i] \o "_2"

\* the position in the extended graph of the entity at position i before
Extended(i) == IF i < addedAt THEN i ELSE i + 1

StyledAlike(i, j) ==
    nameStyle(target, namespace, entities[i]) = nameStyle(target, namespace, entities[j])

PokedexRendered == isPokedex(graph) /\ target = "ruby" /\ pc = "done"

\* the number of the line text of the output
LineNo(text) == CHOOSE k \in DOMAIN out : out[k] = text

\* the lines of the output that open a module or a class at the top level
BlockHeaders ==
    SelectSeq(out, LAMBDA l : StartsWith(l, "module ") \/ StartsWith(l, "class "))

\* the Types module declares Egg and Weakness as string enums
TypesDeclareEnums ==
    LET k == LineNo("module Types")
    IN  /\ out[k + 1] = "  include Dry::Types.module"
        /\ StartsWith(out[k + 2], "  Egg = Types::String.enum(\"")
        /\ StartsWith(out[k + 3], "  Weakness = Types::String.enum(\"")
        /\ out[k + 4] = "end"

\* C19 as stated: for the pokedex schema the Types module comes first, then
\* the value-table modules of Egg and of Weakness, then the classes Evolution,
\* Pokemon and TopLevel.
C19_EnumModulesThenClasses ==
    PokedexRendered =>
        /\ TypesDeclareEnums
        /\ LineNo("module Types") < LineNo("module Egg")
        /\ LineNo("module Types") < LineNo("module Weakness")
        /\ LineNo("module Egg") < LineNo("class Evolution < Dry::Struct")
        /\ LineNo("module Weakness") < LineNo("class Evolution < Dry::Struct")
        /\ LineNo("class Evolution < Dry::Struct") < LineNo("class Pokemon < Dry::Struct")
        /\ LineNo("class Pokemon < Dry::Struct") < LineNo("class TopLevel < Dry::Struct")

\* C19: for the pokedex schema the output is the Types module that declares
\* Egg and Weakness as string enums, then the named types in one order with
\* the value-table modules among the classes: module Egg, class Evolution,
\* module Weakness, class Pokemon, class TopLevel.
C19_PokedexOrder ==
    PokedexRendered =>
        /\ TypesDeclareEnums
        /\ BlockHeaders = << "module Types", "module Egg", "class Evolution < Dry::Struct",
                             "module Weakness", "class Pokemon < Dry::Struct",
                             "class TopLevel < Dry::Struct" >>

C19_Witness ==
    /\ PokedexRendered
    /\ Len(graph.enumCases) = 3
    /\ Len(BlockHeaders) = 6
    /\ out[Len(out)] = "end"

\* the named types the Ruby renderer emits a block for
EmittedNamedTypes ==
    {t \in Range(namedTypes(graph)) : t.kind \in {"class", "enum"} \/ ExplicitSum(t)}

\* the line that opens the block of the named type t
DeclarationLine(t) ==
    LineNo(IF t.kind = "enum" THEN "module " \o nameForNamedType(t) ELSE ClassHeader(t))

\* the named types the declaration of the class or union x refers to
ReferredTypes(x) ==
    LET direct == IF x.kind = "class"
                  THEN UNION {Subterms(classProperties(graph, x)[i].type) :
                                 i \in DOMAIN classProperties(graph, x)}
                  ELSE UNION {Subterms(x.children[i]) : i \in DOMAIN x.children}
    IN  (direct \cap EmittedNamedTypes) \ {x}

\* C20: in the Ruby output every named class, enum or union stands before
\* every class and every union whose declaration refers to it.
C20_DeclaredBeforeUse ==
    target = "ruby" /\ pc = "done" =>
        \A x \in {t \in EmittedNamedTypes : t.kind # "enum"} :
            \A t \in ReferredTypes(x) : DeclarationLine(t) < DeclarationLine(x)

\* Pokemon refers to a union that refers to Evolution
C20_Witness ==
    /\ target = "ruby" /\ pc = "done"
    /\ \E u \in ReferredTypes(Pokemon) :
          /\ ExplicitSum(u)
          /\ Evolution \in ReferredTypes(u)
          /\ DeclarationLine(Evolution) < DeclarationLine(u)

\* the number of lines of the output that satisfy a test: WrapperLines counts
\* the lines that open the wrapper of the top-level tl (Ruby `class <Name>`,
\* Kotlin `typealias <Name> = `), TopLevelDeclarations the lines that open the
\* declaration of the named type whose name tl reuses
WrapperLines(tl) ==
    Cardinality({k \in DOMAIN out :
        IF target = "ruby" THEN out[k] = "class " \o tl.name
        ELSE StartsWith(out[k], "typealias " \o tl.name \o " = ")})

TopLevelDeclarations(tl) ==
    Cardinality({k \in DOMAIN out :
        IF target = "ruby"
        THEN out[k] \in {"class " \o tl.name \o " < Dry::Struct", "module " \o tl.name}
        ELSE out[k] \in {"data class " \o tl.name \o " (", "enum class " \o tl.name \o " {",
                         "sealed class " \o tl.name \o " {"}})

\* C21: a top-level gets a wrapper (Ruby `class <Name>` with self.from_json,
\* Kotlin typealias) exactly when it is not itself a named class, enum or
\* union; a top-level that is a named type gets no wrapper; and every
\* top-level gets either the declaration of the name it reuses or exactly one
\* wrapper.
C21_TopLevelWrappers ==
    pc = "done" =>
        \A i \in DOMAIN graph.topLevels :
            LET tl == graph.topLevels[i]
                named == namedTypeToNameForTopLevel(tl.type) # NoType
            IN  /\ WrapperLines(tl) = (IF named THEN 0 ELSE 1)
                /\ named => TopLevelDeclarations(tl) = 1

\* the part of C21 that the renderers keep: the wrapper is there exactly when
\* the top-level is not a named type, and once
C21_WrapperIffNotNamed ==
    pc = "done" =>
        \A i \in DOMAIN graph.topLevels :
            WrapperLines(graph.topLevels[i])
                = (IF namedTypeToNameForTopLevel(graph.topLevels[i].type) # NoType THEN 0 ELSE 1)

\* C22: ensureBlankLine appends a blank line when the last emitted line is
\* not blank and changes nothing otherwise, and at no point of a render does
\* the output hold two blank lines in a row.
C22_NoTwoBlankLines ==
    /\ ensureBlankLine(Emitter(out, depth)).lines
           = (IF out # <<>> /\ out[Len(out)] # "" THEN Append(out, "") ELSE out)
    /\ \A k \in 1..(Len(out) - 1) : ~(out[k] = "" /\ out[k + 1] = "")

\* both properties of Pokemon are described: ensureBlankLine is called after
\* the attribute of id and again before the description of the next property
C22_Witness ==
    /\ pc = "done"
    /\ graph.described = {KeyId, graph.prop.jsonName}
    /\ \E k \in 1..(Len(out) - 2) :
          /\ StartsWith(out[k], IF target = "ruby" THEN "  attribute :id," ELSE "  val id:")
          /\ out[k + 1] = ""
          /\ out[k + 2] = (IF target = "ruby" THEN "  # A description." ELSE "  /**")

\* the width of the widest cell of column c of a table
WidestCell(rows, c) ==
    CHOOSE w \in {Len(rows[i][c]) : i \in DOMAIN rows} : \A i \in DOMAIN rows : Len(rows[i][c]) <= w

\* the offset in every line at which column c of a table starts
RECURSIVE ColumnOffset(_, _)
ColumnOffset(rows, c) == IF c = 1 THEN 0 ELSE ColumnOffset(rows, c - 1) + WidestCell(rows, c - 1)

\* line holds the cells of row i, each at the offset of its column, with
\* blanks between the end of a cell and the start of the next column and
\* nothing after the last cell
AlignedRow(rows, i, line) ==
    LET n == Len(rows[i])
    IN  /\ Len(line) = ColumnOffset(rows, n) + Len(rows[i][n])
        /\ \A c \in 1..n :
              LET from == ColumnOffset(rows, c)
                  cell == rows[i][c]
              IN  /\ SubSeq(line, from + 1, from + Len(cell)) = cell
                  /\ c < n =>
                        \A k \in (from + Len(cell) + 1)..ColumnOffset(rows, c + 1) :
                            SubSeq(line, k, k) = " "

\* the tables emitClass emitted last: the attributes, the initialisers of
\* from_dynamic and the entries of to_dynamic
EmittedTables == {table, fromInits, toInits} \ {<<>>}

\* C23: in the lines of one emitTable call every cell that has a following
\* column is padded with blanks to the width of the widest cell of its column,
\* so every column starts at the same offset in every row; the lines of the
\* initialisers of from_dynamic stand in the output so aligned.
C23_ColumnsAligned ==
    target = "ruby" /\ fromInits # <<>> =>
        /\ \A rows \in EmittedTables :
               LET lines == emitTable(Emitter(<<>>, 0), rows).lines
               IN  /\ Len(lines) = Len(rows)
                   /\ \A i \in DOMAIN rows : AlignedRow(rows, i, lines[i])
        /\ \E k \in DOMAIN out :
               \A i \in DOMAIN fromInits :
                   /\ k + i - 1 \in DOMAIN out
                   /\ StartsWith(out[k + i - 1], "      ")
                   /\ AlignedRow(fromInits, i,
                                 SubSeq(out[k + i - 1], 7, Len(out[k + i - 1])))

\* class Pokemon of the pokedex schema: the cells `id:` and
\* `next_evolution:` differ in width and their initialisers start at the
\* same offset
C23_Witness ==
    /\ isPokedex(graph) /\ target = "ruby"
    /\ Len(fromInits) = 4
    /\ EmittedClass = Pokemon
    /\ \E k \in DOMAIN out :
          /\ out[k] = "      id:             d[\"id\"],"
          /\ StartsWith(out[k + 3], "      next_evolution: d[\"next_evolution\"]")

Sealed == pc \notin {"setup", "names", "extended"}

\* a line of the output declares the property of class Pokemon under name
DeclaresProperty(name) ==
    \E k \in DOMAIN out :
        StartsWith(out[k], IF target = "ruby" THEN "  attribute :" \o name \o ","
                           ELSE IF shouldOmit(framework, graph.prop.type)
                           THEN "  // val " \o name \o ":"
                           ELSE "  val " \o name \o ":")

\* C25: every name is assigned a string exactly once, in the first phase of
\* the render: while the namer is open nothing has been emitted and no name
\* resolved; once it is sealed every entity has its name, the names are not
\* changed for the rest of the render, and the names the emitted lines and
\* klaxonRenameAttribute resolve are the assigned ones.
C25_AssignedOnceBeforeEmission ==
    /\ [](~Sealed => out = <<>> /\ table = <<>> /\ fromInits = <<>> /\ topSource = <<>>)
    /\ [](Sealed => Len(assigned) = Len(entities))
    /\ [](pc = "done" =>
             /\ DeclaresProperty(assigned[2])
             /\ framework = "klaxon" /\ ~shouldOmit(framework, graph.prop.type) =>
                   ((\E k \in DOMAIN out :
                        out[k] = "  @Json(name = \"" \o stringEscape(graph.prop.jsonName) \o "\")")
                    <=> assigned[2] # stringEscape(graph.prop.jsonName)))
    /\ [][/\ Sealed /\ Sealed' => assigned' = assigned
          /\ assigned' # assigned =>
                \/ ~Sealed /\ Sealed' /\ assigned = <<>>
                \/ Sealed /\ ~Sealed' /\ assigned' = <<>>]_vars

\* the Kotlin render with Klaxon of a class whose property next_evolution was
\* named nextEvolution: klaxonRenameAttribute resolved the name
C25_Witness ==
    /\ pc = "done"
    /\ framework = "klaxon"
    /\ assigned = << "id", "nextEvolution" >>
    /\ \E k \in DOMAIN out : out[k] = "  @Json(name = \"next_evolution\")"

RECURSIVE LeadingBlanks(_)
LeadingBlanks(line) ==
    IF line # "" /\ SubSeq(line, 1, 1) = " " THEN 1 + LeadingBlanks(SubSeq(line, 2, Len(line))) ELSE 0

LineText(line) == SubSeq(line, LeadingBlanks(line) + 1, Len(line))

\* the line is the header line of an emitBlock call of the renderer that runs
BlockHeader(line) ==
    LET text == LineText(line)
    IN  IF target = "ruby"
        THEN \/ StartsWith(text, "module ") \/ StartsWith(text, "class ")
             \/ StartsWith(text, "def ")
             \/ (EndsWith(text, " do") /\ ~StartsWith(text, "#"))
        ELSE EndsWith(text, " {") /\ ~StartsWith(text, "//")

ClosingText == IF target = "ruby" THEN "end" ELSE "}"

\* the first line after header line k that closes a block at its indentation
ClosingLineOf(k) ==
    LET closing == Repeat(" ", LeadingBlanks(out[k])) \o ClosingText
        after   == {j \in (k + 1)..Len(out) : out[j] = closing}
    IN  IF after = {} THEN 0 ELSE CHOOSE j \in after : \A i \in after : j <= i

EmittedHeaders == {k \in DOMAIN out : BlockHeader(out[k])}

ClosingLines == {k \in DOMAIN out : LineText(out[k]) = ClosingText}

\* C26: every emitBlock call emits its header line, runs its body one
\* indentation unit deeper and emits the closing line (end in Ruby, a closing
\* brace in Kotlin) at the indentation of the header; whenever a step of
\* emitSourceStructure has returned, and when emitSourceStructure itself
\* returns, the indentation depth is back to its initial value and every
\* header is matched by one closing line.
C26_BlocksBalanced ==
    /\ depth = 0
    /\ pc = "done" =>
       /\ \A k \in EmittedHeaders :
              LET n == LeadingBlanks(out[k])
                  j == ClosingLineOf(k)
                  body == {i \in (k + 1)..(j - 1) : out[i] # ""}
              IN  /\ body # {}
                  /\ LeadingBlanks(out[CHOOSE i \in body : \A b \in body : i <= b]) =
                         n + Len(defaultIndentation)
                  /\ \A i \in (k + 1)..(j - 1) :
                         out[i] = "" \/ LeadingBlanks(out[i]) >= n + Len(defaultIndentation)
       /\ {ClosingLineOf(k) : k \in EmittedHeaders} = ClosingLines
       /\ Cardinality(EmittedHeaders) = Cardinality(ClosingLines)

\* a render has returned whose output nests a method block in a class block
C26_Witness ==
    /\ pc = "done"
    /\ target = "ruby"
    /\ depth = 0
    /\ \E k \in EmittedHeaders :
           /\ out[k] = "  def to_dynamic"
           /\ ClosingLineOf(k) > k + 1
           /\ out[ClosingLineOf(k)] = "  end"
    /\ \E k \in EmittedHeaders : out[k] = "class Pokemon < Dry::Struct" /\ out[ClosingLineOf(k)] = "end"

\* C27: the attribute declaration of a Ruby class carries .optional at most
\* once at its outermost level: the declaration of an optional property whose
\* type is a nullable union does not end in .optional.optional.
C27_OptionalAtMostOnce ==
    target = "ruby" =>
        \A i \in DOMAIN table : ~EndsWith(table[i][2], ".optional.optional")

\* one type of each of the eleven kinds matchType distinguishes
ElevenKinds ==
    {Prim(k) : k \in {"any", "null", "bool", "integer", "double", "string"}}
        \cup {ArrayOf(Prim("string")), Evolution, MapOf(Prim("integer")), Egg,
              UnionOf("Union", <<Prim("integer"), Evolution>>)}

StubFromDynamic == "raise 'implement union from_dynamic'"

StubToDynamic == "raise 'implement union to_dynamic'"

\* C28: fromDynamic and toDynamic return a source fragment for a type of every
\* kind and never abort the render; for a union that is not a nullable the
\* fragment is the literal raise 'implement union from_dynamic' (to_dynamic),
\* so the render completes with the stub in the initialiser of the property,
\* and the failure occurs when the generated from_dynamic is run.
C28_UnionStub ==
    /\ pc = "setup" =>
       \A t \in GraphTypes \cup ElevenKinds : \A o \in BOOLEAN :
           /\ fromDynamic(t, "e", o) # ""
           /\ toDynamic(t, "e", o) # ""
           /\ IF t.kind = "union" /\ ~isNullable(t)
              THEN /\ fromDynamic(t, "e", o) = StubFromDynamic
                   /\ toDynamic(t, "e", o) = StubToDynamic
              ELSE /\ Contains(fromDynamic(t, "e", o), "e")
                   /\ Contains(toDynamic(t, "e", o), "e")
    /\ PokemonEmitted /\ ExplicitSum(graph.prop.type) =>
           /\ fromInits[2][2] = StubFromDynamic \o ","
           /\ toInits[2][2] = " => " \o StubToDynamic \o ","
           /\ (pc \notin {"built", "serialised"} => obj = NoType)
    /\ pc = "built" /\ ExplicitSum(graph.prop.type) => obj = Raised

\* the render of a class with a property of type integer | Evolution is done:
\* both stubs are in the output, nothing has been run
C28_Witness ==
    /\ target = "ruby"
    /\ pc = "done"
    /\ graph.prop.type = UnionOf("Union", <<Prim("integer"), Evolution>>)
    /\ \E k \in DOMAIN out : Contains(out[k], StubFromDynamic)
    /\ \E k \in DOMAIN out : Contains(out[k], StubToDynamic)
    /\ obj = NoType

\* an array, a map or a class
Container(t) == t.kind \in {"array", "map", "class"}

\* a type the generated code converts, that is an array, a map, a class or a
\* nullable of one of these
ConvertedContainer(t) ==
    /\ ~marshalsImplicitly(t)
    /\ Container(t) \/ (isNullable(t) /\ Container(nullableFromUnion(t)))

\* the generated code was run on a document whose value for the optional
\* property is nil (or absent)
NilGiven ==
    /\ pc \in {"built", "serialised"}
    /\ graph.prop.isOptional
    /\ rbIndex(d, graph.prop, FALSE) = Nil

\* what the claim says of the types in kinds
NilSafeFor(kinds) ==
    NilGiven /\ ConvertedContainer(graph.prop.type)
        /\ (graph.prop.type.kind \in kinds
               \/ (isNullable(graph.prop.type)
                      /\ nullableFromUnion(graph.prop.type).kind \in kinds)) =>
        /\ obj # Raised
        /\ obj.attrs[graph.prop.name] = Nil
        /\ \A reads \in BOOLEAN :
               rbToDynamic(graph, graph.prop.type, Nil, TRUE, reads) = Nil
        /\ pc = "serialised" => dyn # Raised /\ dyn.hash[graph.prop.jsonName] = Nil

\* C29: for every optional property whose type is converted and is an array,
\* a map, a class or a nullable of these, the generated from_dynamic and
\* to_dynamic evaluate to nil when the JSON value (the attribute) is nil.
C29_NilSafe == NilSafeFor({"array", "map", "class"})

\* the same for arrays, classes and their nullables only
C29_NilSafeArrayClass == NilSafeFor({"array", "class"})

\* line k of the output is a property line that is commented out
CommentedOut(k) == StartsWith(LineText(out[k]), "// val ")

\* C30: the Kotlin renderer comments a property line out (with // and under
\* the comment on the limitation of Klaxon) exactly when the framework is
\* Klaxon and the type of the property contains, through arrays, maps and
\* nullables, a union that is not a nullable; with the framework none no
\* property is commented out and no @Json attribute, no converter and no
\* klaxon import is emitted.
C30_KlaxonOmit ==
    target = "kotlin" /\ pc = "done" =>
        LET name    == kotlinPropertyName(graph.prop)
            omitted == framework = "klaxon" /\ ~NoSumType(graph.prop.type)
        IN  /\ \A k \in DOMAIN out :
                   CommentedOut(k) =>
                       /\ omitted
                       /\ StartsWith(out[k], "  // val " \o name \o ":")
                       /\ k > 2
                       /\ StartsWith(out[k - 1], "  // @Json(")
                       /\ EndsWith(out[k - 1], "ignored = true)")
                       /\ out[k - 2] = "  " \o KlaxonLimitation
            /\ omitted <=> \E k \in DOMAIN out : CommentedOut(k)
            /\ omitted <=> ~\E k \in DOMAIN out : StartsWith(out[k], "  val " \o name \o ":")
            /\ \E k \in DOMAIN out : StartsWith(out[k], "  val id: ")
            /\ framework = "none" =>
                   \A k \in DOMAIN out :
                       /\ ~Contains(out[k], "@Json")
                       /\ ~Contains(out[k], "convert")
                       /\ ~Contains(out[k], "laxon")
                       /\ ~StartsWith(out[k], "import ")

\* Klaxon, a property whose type is an array of integer | Evolution: its line
\* is commented out
C30_Witness ==
    /\ target = "kotlin"
    /\ framework = "klaxon"
    /\ pc = "done"
    /\ graph.prop.type = ArrayOf(UnionOf("Union", <<Prim("integer"), Evolution>>))
    /\ \E k \in DOMAIN out : CommentedOut(k) /\ out[k - 2] = "  " \o KlaxonLimitation

\* the same property rendered with the framework none
C30_WitnessNone ==
    /\ target = "kotlin"
    /\ framework = "none"
    /\ pc = "done"
    /\ graph.prop.type = ArrayOf(UnionOf("Union", <<Prim("integer"), Evolution>>))

====
